---- MODULE Spec2Model ----
(***************************************************************************)
(* Model of the resolve_ai orchestrator: ResolveAssistant                  *)
(* (assistant.py), TaskRouter (task_router.py) and the CopilotCLI advisor  *)
(* (copilot_cli.py).                                                       *)
(*                                                                         *)
(* A request is represented by the set of vocabulary words that occur in   *)
(* its lower-cased text (every test the code makes on a request is a       *)
(* substring test against a fixed keyword).  An exception is represented   *)
(* by the name of its Python class and its text.                           *)
(*                                                                         *)
(* A call is followed step by step (pc).  A caller may invoke              *)
(* process_request, or the methods it is built from: route, and then, with *)
(* the plan route returned, the executor of the plan's task_type.  The     *)
(* clock is read from the caller's invocation on: the code uses only       *)
(* differences of time.time().                                             *)
(*                                                                         *)
(* SpecClassify follows a TaskRouter on its own, over a wider vocabulary   *)
(* of requests.                                                            *)
(***************************************************************************)
EXTENDS Integers, Sequences, FiniteSets, TLC

\* ------------------------------------------------------------------ bounds
\* longest step breakdown the advisor returns to break_down_task
MaxBreakdown == 2
\* last value of the wall clock
MaxTime == 2

\* --------------------------------------------------------------- constants
\* assistant.py:70  iteration_limit: float = 20.0, scaled to clock ticks
iteration_limit == 1

None == [kind |-> "None"]
\* an exception: its class and str(e); NoExc when nothing was raised
Exc(class, text) == [class |-> class, text |-> text]
NoExc == Exc("", "")

\* ---------------------------------------------------------------- requests
\* words a request of the model may contain
ReqWords == {"background", "dragon"}
Requests == SUBSET ReqWords
\* words a free-text advisor answer of the model may contain
RespWords == {"node", "comfyui"}

\* --------------------------------------------------------------- exceptions
\* classes derived from Exception; KeyboardInterrupt and SystemExit are not
ExceptionClasses ==
  {"RuntimeError", "TimeoutExpired", "FileNotFoundError", "AttributeError",
   "TypeError", "IndexError"}

\* ------------------------------------------------------------------ advisor
\* What one run of `gh copilot suggest` can do: the executable is missing,
\* the run times out, it exits non-zero, or it prints text which either
\* holds a JSON object (with some task_type, or none) or does not.
JsonTaskTypes == {"fusion", "comfyui", "hybrid", "<missing>", "timeline"}
AdvisorOutcomes ==
  {[kind |-> k, task_type |-> "", words |-> {}] :
      k \in {"FileNotFoundError", "TimeoutExpired", "nonzero"}}
  \cup {[kind |-> "json", task_type |-> t, words |-> {}] : t \in JsonTaskTypes}
  \cup {[kind |-> "text", task_type |-> "", words |-> w] : w \in SUBSET RespWords}

ai_keywords ==
  {"comfyui", "generate", "create character", "create scene",
   "photorealistic", "artistic", "fantasy", "dragon", "person",
   "landscape", "painting", "style"}

fusion_keywords ==
  {"fusion", "node", "background", "text", "transform",
   "merge", "color", "blur", "glow", "effect"}

\* a tie-break that sends equal scores to 'fusion'
_infer_task_typeTieToFusion(response, request) ==
  LET ai_score == Cardinality({kw \in ai_keywords : kw \in response \/ kw \in request})
      fusion_score == Cardinality({kw \in fusion_keywords : kw \in response \/ kw \in request})
  IN  IF ai_score > fusion_score THEN "comfyui"
      ELSE IF ai_score > 0 /\ fusion_score > ai_score THEN "hybrid"
      ELSE "fusion"

_infer_task_type(response, request) ==
  LET ai_score == Cardinality({kw \in ai_keywords : kw \in response \/ kw \in request})
      fusion_score == Cardinality({kw \in fusion_keywords : kw \in response \/ kw \in request})
  IN  IF ai_score > fusion_score THEN "comfyui"
      ELSE IF ai_score > 0 /\ fusion_score > 0 THEN "hybrid"
      ELSE "fusion"

\* a parser whose default for a JSON object without task_type is 'hybrid'
_parse_suggestionDefaultHybrid(out, original_request) ==
  IF out.kind = "json"
  THEN [confidence |-> 9,
        task_type |-> IF out.task_type = "<missing>" THEN "hybrid" ELSE out.task_type]
  ELSE [confidence |-> 7,
        task_type |-> _infer_task_type(out.words, original_request)]

_parse_suggestion(out, original_request) ==
  IF out.kind = "json"
  THEN [confidence |-> 9,
        task_type |-> IF out.task_type = "<missing>" THEN "fusion" ELSE out.task_type]
  ELSE [confidence |-> 7,
        task_type |-> _infer_task_type(out.words, original_request)]

\* CopilotSuggestion, or the exception that leaves suggest
suggest(user_request, out) ==
  IF out.kind \in {"FileNotFoundError", "TimeoutExpired"}
  THEN [ok |-> FALSE, exc |-> Exc(out.kind, "gh copilot suggest"), value |-> None]
  ELSE IF out.kind = "nonzero"
  THEN [ok |-> FALSE, exc |-> Exc("RuntimeError", "Copilot CLI error"), value |-> None]
  ELSE [ok |-> TRUE, exc |-> NoExc, value |-> _parse_suggestion(out, user_request)]

\* --------------------------------------------------------------- breakdown
\* One element of the JSON array break_down_task parsed.  type "<int>" is a
\* type that is not a string, type "<nondict>" an element that is not an
\* object; prompt is the value of details.prompt: absent, a string or an
\* object.
BreakdownElements ==
  {[type |-> "comfyui", prompt |-> p] : p \in {"<absent>", "str", "dict"}}
  \cup {[type |-> t, prompt |-> "<absent>"] :
          t \in {"background", "fusion", "<int>", "<nondict>"}}

RECURSIVE SeqsUpTo(_, _)
SeqsUpTo(S, n) ==
  IF n = 0 THEN {<<>>}
  ELSE LET shorter == SeqsUpTo(S, n - 1)
       IN  shorter \cup {Append(q, x) : q \in {r \in shorter : Len(r) = n - 1}, x \in S}

\* What one run of break_down_task's subprocess can do: raise, print a JSON
\* array, or print anything else (a non-zero exit is not looked at).
BreakdownOutcomes ==
  {[kind |-> k, steps |-> <<>>] : k \in {"FileNotFoundError", "TimeoutExpired"}}
  \cup {[kind |-> "array", steps |-> q] : q \in SeqsUpTo(BreakdownElements, MaxBreakdown)}
  \cup {[kind |-> "other", steps |-> <<>>]}

break_down_task(out) ==
  IF out.kind \in {"FileNotFoundError", "TimeoutExpired"}
  THEN [ok |-> FALSE, exc |-> Exc(out.kind, "gh copilot suggest"), value |-> <<>>]
  ELSE IF out.kind = "array"
  THEN [ok |-> TRUE, exc |-> NoExc, value |-> out.steps]
  ELSE [ok |-> TRUE, exc |-> NoExc, value |-> <<[type |-> "fusion", prompt |-> "<absent>"]>>]

\* ------------------------------------------------------------------- router
FusionRef(i) == [list |-> "fusion", index |-> i]
\* a reference that counts the prompts from 1
ComfyRefOneBased(i) == [list |-> "comfyui", index |-> i + 1]
ComfyRef(i) == [list |-> "comfyui", index |-> i]

RoutedTask(tt, request, steps, prompts, order) ==
  [kind |-> "RoutedTask", task_type |-> tt, description |-> request,
   fusion_steps |-> steps, comfyui_prompts |-> prompts, execution_order |-> order]

\* A step dict: its type, its description (a text, held like a request as
\* the set of vocabulary words in it) and, of its params, the colour and the
\* text; the other params are constants of the code.
Params(color, text) == [color |-> color, text |-> text]
NoParams == Params(<<>>, "")
Step(t, description, params) == [type |-> t, description |-> description, params |-> params]

\* task_router.py:191-202  color_map in its order of insertion, RGBA in tenths
color_map ==
  << <<"red", <<10, 0, 0, 10>> >>, <<"green", <<0, 10, 0, 10>> >>,
     <<"blue", <<0, 0, 10, 10>> >>, <<"yellow", <<10, 10, 0, 10>> >>,
     <<"cyan", <<0, 10, 10, 10>> >>, <<"magenta", <<10, 0, 10, 10>> >>,
     <<"white", <<10, 10, 10, 10>> >>, <<"black", <<0, 0, 0, 10>> >>,
     <<"gray", <<5, 5, 5, 10>> >>, <<"grey", <<5, 5, 5, 10>> >> >>

\* the value of the first colour name of color_map found in text, else grey
_extract_color(text) ==
  LET found == {i \in 1..Len(color_map) : color_map[i][1] \in text}
  IN  IF found = {} THEN <<5, 5, 5, 10>>
      ELSE color_map[CHOOSE i \in found : \A j \in found : i <= j][2]

\* a request may hold the double-quoted string "Hello"
Quoted == "\"Hello\""

\* the quoted string when there is one, else what follows the first of the
\* keywords found, else the placeholder
_extract_text_content(text) ==
  IF Quoted \in text THEN "Hello"
  ELSE IF {"saying", "text", "title", "subtitle"} \cap text # {} THEN "<after keyword>"
  ELSE "Sample Text"

_extract_fusion_steps(request) ==
  LET background == IF "background" \in request
                    THEN <<Step("background", {"background"},
                                Params(_extract_color(request), ""))>>
                    ELSE <<>>
      text == IF {"text", "title", "lower-third", "subtitle"} \cap request # {}
              THEN <<Step("text", {"text"}, Params(<<>>, _extract_text_content(request)))>>
              ELSE <<>>
      glow == IF "glow" \in request THEN <<Step("glow", {"glow", "effect"}, NoParams)>>
              ELSE <<>>
      blur == IF "blur" \in request THEN <<Step("blur", {"blur", "effect"}, NoParams)>>
              ELSE <<>>
      transform == IF {"move", "position", "transform", "scale", "rotate"} \cap request # {}
                   THEN <<Step("transform", {"transform"}, NoParams)>> ELSE <<>>
      steps == background \o text \o glow \o blur \o transform
  IN  IF steps = <<>> THEN <<Step("generic", request, NoParams)>> ELSE steps

\* A generation prompt: a str with the words found in it (no word: the
\* empty string), or the object an advisor put in place of a string.
Prompt(words) == [kind |-> "str", words |-> words]
DictPrompt == [kind |-> "dict", words |-> {}]
\* the string an advisor wrote as details.prompt
AdvisorPrompt == Prompt({"castle"})

remove_words == {"create", "generate", "make", "add", "using ai", "with ai"}

\* task_router.py:167-187  the request without the command words, wrapped
\* in the phrases of the request's kind; always one prompt, a str
_extract_comfyui_prompts(request) ==
  LET prompt == request \ remove_words
  IN  IF "background" \in request
      THEN <<Prompt({"cinematic", "background"} \cup prompt \cup {"high quality", "detailed"})>>
      ELSE IF "character" \in request
      THEN <<Prompt({"character"} \cup prompt \cup {"professional lighting", "detailed"})>>
      ELSE <<Prompt(prompt \cup {"high quality", "professional"})>>

_route_fusion_task(request) ==
  LET fusion_steps == _extract_fusion_steps(request)
  IN  RoutedTask("fusion", request, fusion_steps, <<>>,
                 [i \in 1..Len(fusion_steps) |-> FusionRef(i - 1)])

\* a router that puts the load step before the generation it loads
_route_comfyui_taskLoadFirst(request) ==
  RoutedTask("comfyui", request, <<Step("loader", {"generate"}, NoParams)>>,
             _extract_comfyui_prompts(request), <<FusionRef(0), ComfyRef(0)>>)

_route_comfyui_task(request) ==
  RoutedTask("comfyui", request, <<Step("loader", {"generate"}, NoParams)>>,
             _extract_comfyui_prompts(request), <<ComfyRef(0), FusionRef(0)>>)

\* the loop of _route_hybrid_task over the first n elements of steps; of the
\* advisor's dict that becomes a fusion step the model follows the type
RECURSIVE HybridLoop(_, _, _)
HybridLoop(request, steps, n) ==
  IF n = 0
  THEN RoutedTask("hybrid", request, <<>>, <<>>, <<>>)
  ELSE LET acc == HybridLoop(request, steps, n - 1)
           step == steps[n]
       IN  IF step.type = "comfyui"
           THEN [acc EXCEPT
                   !.comfyui_prompts =
                      Append(@, IF step.prompt = "<absent>" THEN Prompt(request)
                                ELSE IF step.prompt = "str" THEN AdvisorPrompt
                                ELSE DictPrompt),
                   !.execution_order = Append(@, ComfyRef(Len(acc.comfyui_prompts)))]
           ELSE [acc EXCEPT
                   !.fusion_steps = Append(@, Step(step.type, {}, NoParams)),
                   !.execution_order = Append(@, FusionRef(Len(acc.fusion_steps)))]

\* step.get(...) on an element that is not an object raises AttributeError
_route_hybrid_task(request, bd) ==
  LET steps == break_down_task(bd)
  IN  IF ~steps.ok THEN [ok |-> FALSE, exc |-> steps.exc, value |-> None]
      ELSE IF \E i \in 1..Len(steps.value) : steps.value[i].type = "<nondict>"
      THEN [ok |-> FALSE, exc |-> Exc("AttributeError", "object has no attribute 'get'"),
            value |-> None]
      ELSE [ok |-> TRUE, exc |-> NoExc,
            value |-> HybridLoop(request, steps.value, Len(steps.value))]

\* a router that takes what is neither 'comfyui' nor 'hybrid' for 'fusion'
routeGraphOtherwise(user_request, adv, bd) ==
  LET suggestion == suggest(user_request, adv)
  IN  IF ~suggestion.ok THEN [ok |-> FALSE, exc |-> suggestion.exc, value |-> None]
      ELSE IF suggestion.value.task_type = "comfyui"
      THEN [ok |-> TRUE, exc |-> NoExc, value |-> _route_comfyui_task(user_request)]
      ELSE IF suggestion.value.task_type = "hybrid"
      THEN _route_hybrid_task(user_request, bd)
      ELSE [ok |-> TRUE, exc |-> NoExc, value |-> _route_fusion_task(user_request)]

\* TaskRouter.route: adv is what the advisor does for suggest, bd what it
\* does for break_down_task (used by a hybrid request only)
route(user_request, adv, bd) ==
  LET suggestion == suggest(user_request, adv)
  IN  IF ~suggestion.ok THEN [ok |-> FALSE, exc |-> suggestion.exc, value |-> None]
      ELSE IF suggestion.value.task_type = "fusion"
      THEN [ok |-> TRUE, exc |-> NoExc, value |-> _route_fusion_task(user_request)]
      ELSE IF suggestion.value.task_type = "comfyui"
      THEN [ok |-> TRUE, exc |-> NoExc, value |-> _route_comfyui_task(user_request)]
      ELSE _route_hybrid_task(user_request, bd)

\* The runs of break_down_task's subprocess to consider with a suggest run
\* adv: route reaches break_down_task only when the suggestion is neither
\* 'fusion' nor 'comfyui'; otherwise no such run takes place.
BreakdownsAfter(user_request, adv) ==
  LET suggestion == suggest(user_request, adv)
  IN  IF suggestion.ok /\ suggestion.value.task_type \notin {"fusion", "comfyui"}
      THEN BreakdownOutcomes
      ELSE {[kind |-> "other", steps |-> <<>>]}

\* ----------------------------------------------------------------- backends
\* keyword parameters of ComfyUIClient.generate, and the keywords the
\* orchestrator passes to it
generate_parameters ==
  {"prompt", "negative_prompt", "width", "height", "steps", "cfg", "seed"}
generate_keywords == {"prompt", "width", "height", "steps", "cfg_scale", "style"}
\* fields of the GenerationResult generate returns
GenerationResultFields == {"image_path", "prompt", "seed", "steps", "generation_time"}

\* What self.comfyui.generate(**generate_keywords) can do: a keyword that is
\* no parameter is a TypeError before the body runs; otherwise the server
\* yields an image or the client raises RuntimeError.
GenerateOutcomes ==
  IF generate_keywords \subseteq generate_parameters
  THEN {"image", "RuntimeError"}
  ELSE {"TypeError"}

\* node types _create_fusion_node knows, and the builder operation of each
KnownNodeTypes == {"background", "text", "merge", "transform", "glow", "blur"}
BuilderOp(node_type) == "create_" \o node_type \o "_node"
\* What a FusionNodeBuilder.create_*_node call can do: return the tool,
\* return None, or raise.
BuilderOutcomes == {"node", "none", "raise"}

\* step.get(key, default) on the dict of a step
StepGet(step, key, default) == IF key \in DOMAIN step THEN step[key] ELSE default

\* lines 384-397: the colour and the text handed to the builder operation
\* (colours in tenths; <<>> and "" where the operation takes none)
BuilderArgs(step) ==
  IF step.type = "background"
  THEN [color |-> StepGet(step, "color", <<0, 0, 0, 10>>), text |-> ""]
  ELSE IF step.type = "text"
  THEN [color |-> StepGet(step, "color", <<10, 10, 10>>),
        text |-> StepGet(step, "text", "Text")]
  ELSE [color |-> <<>>, text |-> ""]

\* _create_fusion_node(step) when the builder call, if one is made, ends in
\* outcome: the exception it lets out, whether it returns a node, the
\* builder operation it called ("" when none) and what it handed to it
_create_fusion_node(step, outcome) ==
  IF step.type = "<int>"
  THEN [exc |-> Exc("AttributeError", "'int' object has no attribute 'lower'"),
        node |-> FALSE, op |-> "", args |-> BuilderArgs(step)]
  ELSE IF step.type \in KnownNodeTypes
  THEN [exc |-> NoExc, node |-> (outcome = "node"), op |-> BuilderOp(step.type),
        args |-> BuilderArgs(step)]
  ELSE [exc |-> NoExc, node |-> FALSE, op |-> "", args |-> BuilderArgs(step)]

\* ------------------------------------------------------------ result model
Message(fmt, args) == [fmt |-> fmt, args |-> args, warning |-> FALSE]

IterationResult(success, duration, st, message, nodes, images, error) ==
  [kind |-> "IterationResult", success |-> success, duration |-> duration,
   state |-> st, message |-> message, nodes_created |-> nodes,
   images_generated |-> images, error |-> error]

\* ------------------------------------------------------------------- state
VARIABLES
  state,             \* self.state
  builder,           \* self.builder is not None
  comfyui,           \* self.comfyui is not None
  now,               \* time.time(), counted from the caller's invocation
  entry,             \* the method the caller invoked, "none" between calls
  pc,                \* where the call is
  user_input,        \* the request of the call
  start_time,        \* process_request's start_time
  task,              \* the RoutedTask in hand
  idx,               \* position of the executor's for loop, from 1
  nodes_created,     \* the executor's local list
  images_generated,  \* the executor's local list
  graphCalls,        \* builder operations invoked during the call
  attempted,         \* steps handed to _create_fusion_node during the call
  genCalls,          \* generate calls made during the call
  raised,            \* exception in flight, or NoExc
  result,            \* what the call returned, or None
  visited,           \* self.state at entry to process_request, then each value assigned
  advice,            \* what the advisor printed for the route call under observation
  second,            \* what a repeated route call returned, or None
  comp,              \* the Fusion composition: the name of each tool in it, by tool
  created_nodes,     \* FusionNodeBuilder.created_nodes: the tool kept under each name
  fusion_builder,    \* self.fusion_builder is not None (bridge, function executor)
  made               \* number of tools the composition has been given so far

vars == <<state, builder, comfyui, now, entry, pc, user_input, start_time, task,
          idx, nodes_created, images_generated, graphCalls, attempted, genCalls, raised, result,
          visited, advice, second, comp, created_nodes, fusion_builder, made>>

\* the composition and its builder, which the assistant's calls leave alone
tools == <<comp, created_nodes, fusion_builder, made>>

\* the variables only the classifier's own specification changes
classifier == <<advice, second>>

locals == <<task, idx, nodes_created, images_generated, graphCalls, attempted, genCalls,
            raised, result>>

\* the place of the next backend call among the backend calls of this call
CallNo == Len(graphCalls) + Len(genCalls) + 1

\* a call to the advisor or to a backend takes 0 or 1 ticks of the clock
Delays == {d \in {0, 1} : now + d <= MaxTime}

\* ------------------------------------------------------------- construction
\* What the liveness probe of ComfyUIClient.__init__ meets: status 200,
\* another status, or a RequestException.
ProbeOutcomes == {"200", "500", "RequestException"}

\* comfyui_client.py:39-51  returns True on status 200, raises RuntimeError
\* on anything else
_check_server_available(probe) ==
  IF probe = "200" THEN NoExc
  ELSE Exc("RuntimeError", "ComfyUI server not available")

\* the methods class ComfyUIClient defines
ComfyUIClientMethods ==
  {"_check_server_available", "generate", "_build_wan22_workflow", "_monitor_progress",
   "_get_image", "generate_batch", "upscale", "generate_background",
   "generate_character", "generate_scene"}

\* the methods class ResolveAIController defines
ResolveAIControllerMethods ==
  {"_import_resolve_module", "_connect_to_resolve", "get_project_info",
   "get_current_timeline", "get_fusion_comp", "list_timeline_items", "add_marker",
   "create_timeline", "set_current_timeline", "export_timeline",
   "get_media_pool_items", "import_media", "get_status"}

\* assistant.py:86-96  the values `self.comfyui is not None` can have after
\* the try block: the client is built (its __init__ runs the probe), then
\* check_connection() is called on it; every exception, the AttributeError
\* of a method the client does not have included, ends in comfyui = None
ComfyUIAfterInit(probe) ==
  IF _check_server_available(probe) # NoExc THEN {FALSE}
  ELSE IF "check_connection" \notin ComfyUIClientMethods THEN {FALSE}
  ELSE BOOLEAN

\* the variables of a call, between calls
AtRest ==
  /\ now = 0
  /\ user_input = {}
  /\ start_time = 0
  /\ task = None
  /\ idx = 1
  /\ nodes_created = <<>>
  /\ images_generated = <<>>
  /\ graphCalls = <<>>
  /\ attempted = <<>>
  /\ genCalls = <<>>
  /\ raised = NoExc
  /\ visited = <<>>
  /\ advice = None
  /\ second = None
  /\ comp = <<>>
  /\ created_nodes = <<>>
  /\ fusion_builder = FALSE
  /\ made = 0

\* assistant.py:67-102  ResolveAssistant(...) has returned to its caller
\* (Resolve and gh are there: without them __init__ raises and there is no
\* assistant); result tells what the probe met.  The builder exists when
\* the controller found a Fusion composition.
Init ==
  /\ state = "idle"
  /\ builder \in BOOLEAN
  /\ \E probe \in ProbeOutcomes :
       /\ comfyui \in ComfyUIAfterInit(probe)
       /\ result = [kind |-> "ResolveAssistant", probe |-> probe]
  /\ entry = "__init__"
  /\ pc = "returned"
  /\ AtRest

\* ---------------------------------------------------------- process_request
\* a handler written `except RuntimeError`
CatchesRuntimeErrorOnly(exc) == exc.class = "RuntimeError"

\* assistant.py:144  `except Exception` takes every class derived from it
Catches(exc) == exc.class \in ExceptionClasses

\* a handler that leaves the placeholder in the duration field
HandlerResultPlaceholderDuration(duration, exc) ==
  IterationResult(FALSE, 0, "error",
                  Message("Error processing request", <<>>), <<>>, <<>>, exc.text)

\* a handler that drops the exception text and reports the call complete
HandlerResultWithoutError(duration, exc) ==
  IterationResult(FALSE, duration, "complete",
                  Message("Error processing request", <<>>), <<>>, <<>>, "<None>")

\* assistant.py:147-153  the result process_request's handler builds
HandlerResult(duration, exc) ==
  IterationResult(FALSE, duration, "error",
                  Message("Error processing request", <<>>), <<>>, <<>>, exc.text)

\* a TaskType written as an Enum with the members process_request names
TaskTypeEnumMembers == {"FUSION_ONLY", "COMFYUI_ONLY", "HYBRID"}

\* task_router.py:9  TaskType is the alias Literal['fusion','comfyui','hybrid'];
\* it has no attributes FUSION_ONLY or COMFYUI_ONLY, and looking one up
\* raises AttributeError(name)
TaskTypeAttributes == {}

\* `self.state = s`; visited follows the process_request call in progress
SetState(s) ==
  /\ state' = s
  /\ visited' = IF entry = "process_request" THEN Append(visited, s) ELSE visited

\* a caller invokes process_request(user_input)
ProcessRequest ==
  /\ pc = "idle"
  /\ \E req \in Requests : user_input' = req
  /\ entry' = "process_request"
  /\ start_time' = now
  /\ pc' = "analyze"
  /\ visited' = <<state>>
  /\ UNCHANGED <<state, builder, tools, comfyui, classifier, now, locals>>

\* lines 118-119: state = ANALYZING; suggestion = self._analyze_input(...),
\* which is copilot.suggest on a prompt built around user_input; nothing
\* reads the suggestion afterwards (_route_task ignores it)
Analyze ==
  /\ pc = "analyze"
  /\ SetState("analyzing")
  /\ \E adv \in AdvisorOutcomes, d \in Delays :
       LET suggestion == suggest(user_input, adv) IN
       /\ now' = now + d
       /\ IF suggestion.ok
          THEN pc' = "route" /\ raised' = NoExc
          ELSE pc' = "except" /\ raised' = suggestion.exc
  /\ UNCHANGED <<builder, tools, comfyui, classifier, entry, user_input, start_time, task, idx,
                 nodes_created, images_generated, graphCalls, attempted, genCalls, result>>

\* a caller invokes router.route(user_request) itself
RouteCall ==
  /\ pc = "idle"
  /\ \E req \in Requests : user_input' = req
  /\ entry' = "route"
  /\ pc' = "route"
  /\ UNCHANGED <<state, visited, builder, tools, comfyui, classifier, now, start_time, locals>>

\* lines 122-123: state = ROUTING; routed_task = self.router.route(user_input);
\* for a caller of route itself the plan, or the exception, goes to the caller
Route ==
  /\ pc = "route"
  /\ IF entry = "process_request" THEN SetState("routing")
     ELSE UNCHANGED <<state, visited>>
  /\ \E adv \in AdvisorOutcomes, d \in Delays :
     \E bd \in BreakdownsAfter(user_input, adv) :
       LET routed == route(user_input, adv, bd) IN
       /\ now' = now + d
       /\ IF entry = "process_request"
          THEN IF routed.ok
               THEN pc' = "dispatch" /\ task' = routed.value
                    /\ raised' = NoExc /\ result' = None
               ELSE pc' = "except" /\ task' = None
                    /\ raised' = routed.exc /\ result' = None
          ELSE /\ pc' = "returned"
               /\ task' = None
               /\ raised' = routed.exc
               /\ result' = routed.value
  /\ UNCHANGED <<builder, tools, comfyui, classifier, entry, user_input, start_time, idx,
                 nodes_created, images_generated, graphCalls, attempted, genCalls>>

\* lines 126-131: the comparison with TaskType.FUSION_ONLY, then with
\* TaskType.COMFYUI_ONLY, selects the executor
Dispatch ==
  /\ pc = "dispatch"
  /\ IF "FUSION_ONLY" \notin TaskTypeAttributes
     THEN pc' = "except" /\ raised' = Exc("AttributeError", "FUSION_ONLY")
     ELSE IF task.task_type = "fusion"
     THEN pc' = "fusion_enter" /\ raised' = NoExc
     ELSE IF "COMFYUI_ONLY" \notin TaskTypeAttributes
     THEN pc' = "except" /\ raised' = Exc("AttributeError", "COMFYUI_ONLY")
     ELSE IF task.task_type = "comfyui"
     THEN pc' = "comfyui_enter" /\ raised' = NoExc
     ELSE pc' = "hybrid_enter" /\ raised' = NoExc
  /\ UNCHANGED <<state, visited, builder, tools, comfyui, classifier, now, entry, user_input,
                 start_time, task,
                 idx, nodes_created, images_generated, graphCalls, attempted, genCalls, result>>

\* lines 144-153: the handler of process_request; an exception it does not
\* take leaves process_request
Except ==
  /\ pc = "except"
  /\ IF Catches(raised)
     THEN /\ SetState("error")
          /\ result' = HandlerResult(now - start_time, raised)
          /\ raised' = NoExc
     ELSE UNCHANGED <<state, visited, result, raised>>
  /\ pc' = "returned"
  /\ UNCHANGED <<builder, tools, comfyui, classifier, now, entry, user_input, start_time, task, idx,
                 nodes_created, images_generated, graphCalls, attempted, genCalls>>

\* ---------------------------------------------------------------- executors
NoError == "<None>"

\* lines 203-209
FusionUnavailableResult ==
  IterationResult(FALSE, 0, "error", Message("Fusion composition not available", <<>>),
                  <<>>, <<>>, "No active Fusion composition")

\* lines 250-256
ComfyUIUnavailableResult ==
  IterationResult(FALSE, 0, "error",
                  Message("ComfyUI not available - AI image generation disabled", <<>>),
                  <<>>, <<>>,
                  "ComfyUI server not connected. Start ComfyUI or use Fusion-only tasks.")

\* lines 316-322
HybridUnavailableResult ==
  IterationResult(FALSE, 0, "error",
                  Message("ComfyUI not available - cannot execute hybrid task", <<>>),
                  <<>>, <<>>,
                  "Hybrid tasks require ComfyUI. Try a Fusion-only task or start ComfyUI server.")

\* lines 228-234, 294-300, 362-368: the result an executor's handler builds
ExecutorHandlerResult(st, exc) ==
  IterationResult(FALSE, 0, "error",
                  Message(CASE st = "executing_fusion" -> "Failed to create Fusion nodes"
                            [] st = "executing_comfyui" -> "Failed to generate AI images"
                            [] OTHER -> "Failed to execute hybrid task", <<>>),
                  <<>>, <<>>, exc.text)

\* line 202: `if not self.builder`
FusionMissing == ~builder
\* line 249: `if not self.comfyui`
ComfyUIMissing == ~comfyui
\* a hybrid executor without the check of line 315
HybridComfyUINeverMissing == FALSE
\* line 315: `if not self.comfyui`
HybridComfyUIMissing == ~comfyui
\* line 346: `if self.builder`
HybridBuilderPresent == builder

\* a loop that stays on the element it has just gone through
Repeat(i) == i

\* `for ... in ...`: on to the next element of the list
Advance(i) == i + 1

\* One pass of `for step in task.fusion_steps` (lines 214-217, 347-350):
\* the node is created, its name appended when one came back; an exception
\* out of _create_fusion_node goes to the executor's handler.
GraphStep ==
  \E o \in BuilderOutcomes, d \in Delays :
    LET created == _create_fusion_node(task.fusion_steps[idx], o) IN
    /\ now' = IF created.op = "" THEN now ELSE now + d
    /\ graphCalls' = IF created.op = "" THEN graphCalls
                     ELSE Append(graphCalls,
                                 [op |-> created.op, step |-> idx, at |-> CallNo,
                                  args |-> created.args])
    /\ attempted' = Append(attempted, [step |-> idx, node |-> created.node])
    /\ IF created.exc # NoExc
       THEN /\ raised' = created.exc
            /\ pc' = "exec_except"
            /\ UNCHANGED <<idx, nodes_created>>
       ELSE /\ nodes_created' = IF created.node THEN Append(nodes_created, "Unknown")
                                ELSE nodes_created
            /\ idx' = Advance(idx)
            /\ UNCHANGED <<raised, pc>>

\* lines 262-275 / 330-342 for one prompt when generate, if it is called,
\* ends in outcome: the exception raised, whether generate was called and
\* whether result.success held
GenerationAttempt(prompt_data, outcome) ==
  IF prompt_data.kind = "str"
  THEN [exc |-> Exc("AttributeError", "'str' object has no attribute 'get'"),
        called |-> FALSE, image |-> FALSE]
  ELSE IF outcome = "TypeError"
  THEN [exc |-> Exc("TypeError", "generate() got an unexpected keyword argument 'cfg_scale'"),
        called |-> TRUE, image |-> FALSE]
  ELSE IF outcome = "RuntimeError"
  THEN [exc |-> Exc("RuntimeError", "Failed to submit workflow"),
        called |-> TRUE, image |-> FALSE]
  ELSE IF "success" \notin GenerationResultFields
  THEN [exc |-> Exc("AttributeError", "'GenerationResult' object has no attribute 'success'"),
        called |-> TRUE, image |-> FALSE]
  ELSE [exc |-> NoExc, called |-> TRUE, image |-> TRUE]

\* lines 200-211
FusionEnter ==
  /\ pc = "fusion_enter"
  /\ SetState("executing_fusion")
  /\ IF FusionMissing
     THEN /\ result' = FusionUnavailableResult
          /\ pc' = "exec_return"
          /\ UNCHANGED <<idx, nodes_created>>
     ELSE /\ nodes_created' = <<>>
          /\ idx' = 1
          /\ pc' = "fusion_loop"
          /\ UNCHANGED result
  /\ UNCHANGED <<builder, tools, comfyui, classifier, now, entry, user_input, start_time, task,
                 images_generated, graphCalls, attempted, genCalls, raised>>

\* lines 213-225
FusionLoop ==
  /\ pc = "fusion_loop"
  /\ IF idx <= Len(task.fusion_steps)
     THEN GraphStep /\ UNCHANGED result
     ELSE /\ result' = IterationResult(TRUE, 0, "complete",
                          Message("Created {} Fusion nodes", <<Len(nodes_created)>>),
                          nodes_created, <<>>, NoError)
          /\ pc' = "exec_return"
          /\ UNCHANGED <<now, graphCalls, attempted, raised, idx, nodes_created>>
  /\ UNCHANGED <<state, visited, builder, tools, comfyui, classifier, entry, user_input, start_time, task,
                 images_generated, genCalls>>

\* What FusionNodeBuilder.create_loader_node can do: create_node and
\* set_node_params take every exception, so it returns the tool or None.
LoaderOutcomes == {"node", "none"}

\* lines 246-258
ComfyUIEnter ==
  /\ pc = "comfyui_enter"
  /\ SetState("executing_comfyui")
  /\ IF ComfyUIMissing
     THEN /\ result' = ComfyUIUnavailableResult
          /\ pc' = "exec_return"
          /\ UNCHANGED <<idx, images_generated>>
     ELSE /\ images_generated' = <<>>
          /\ idx' = 1
          /\ pc' = "comfyui_loop"
          /\ UNCHANGED result
  /\ UNCHANGED <<builder, tools, comfyui, classifier, now, entry, user_input, start_time, task,
                 nodes_created, graphCalls, attempted, genCalls, raised>>

\* lines 260-291: one prompt per step (generate, then the loader node when
\* a builder exists), the result once the prompts are done
ComfyUILoop ==
  /\ pc = "comfyui_loop"
  /\ IF idx <= Len(task.comfyui_prompts)
     THEN \E o \in GenerateOutcomes, lo \in LoaderOutcomes, d \in Delays :
            LET attempt == GenerationAttempt(task.comfyui_prompts[idx], o) IN
            /\ now' = IF attempt.called THEN now + d ELSE now
            /\ genCalls' = IF attempt.called
                           THEN Append(genCalls, [prompt |-> idx, at |-> CallNo])
                           ELSE genCalls
            /\ IF attempt.exc # NoExc
               THEN /\ raised' = attempt.exc
                    /\ pc' = "exec_except"
                    /\ UNCHANGED <<idx, images_generated, graphCalls>>
               ELSE /\ images_generated' = IF attempt.image THEN Append(images_generated, idx)
                                           ELSE images_generated
                    /\ graphCalls' = IF attempt.image /\ builder
                                     THEN Append(graphCalls,
                                                 [op |-> "create_loader_node", step |-> idx,
                                                  at |-> CallNo + 1,
                                                  args |-> [color |-> <<>>, text |-> ""]])
                                     ELSE graphCalls
                    /\ idx' = Advance(idx)
                    /\ UNCHANGED <<raised, pc>>
            /\ UNCHANGED result
     ELSE /\ result' = IterationResult(TRUE, 0, "complete",
                          Message("Generated {} AI images", <<Len(images_generated)>>),
                          <<>>, images_generated, NoError)
          /\ pc' = "exec_return"
          /\ UNCHANGED <<now, genCalls, graphCalls, raised, idx, images_generated>>
  /\ UNCHANGED <<state, visited, builder, tools, comfyui, classifier, entry, user_input, start_time, task,
                 nodes_created, attempted>>

\* lines 312-325
HybridEnter ==
  /\ pc = "hybrid_enter"
  /\ SetState("executing_hybrid")
  /\ IF HybridComfyUIMissing
     THEN /\ result' = HybridUnavailableResult
          /\ pc' = "exec_return"
          /\ UNCHANGED <<idx, images_generated, nodes_created>>
     ELSE /\ images_generated' = <<>>
          /\ nodes_created' = <<>>
          /\ idx' = 1
          /\ pc' = "hybrid_generate"
          /\ UNCHANGED result
  /\ UNCHANGED <<builder, tools, comfyui, classifier, now, entry, user_input, start_time, task,
                 graphCalls, attempted, genCalls, raised>>

\* lines 328-343: step 1, one prompt per step; then on to step 2
HybridGenerate ==
  /\ pc = "hybrid_generate"
  /\ IF idx <= Len(task.comfyui_prompts)
     THEN \E o \in GenerateOutcomes, d \in Delays :
            LET attempt == GenerationAttempt(task.comfyui_prompts[idx], o) IN
            /\ now' = IF attempt.called THEN now + d ELSE now
            /\ genCalls' = IF attempt.called
                           THEN Append(genCalls, [prompt |-> idx, at |-> CallNo])
                           ELSE genCalls
            /\ IF attempt.exc # NoExc
               THEN /\ raised' = attempt.exc
                    /\ pc' = "exec_except"
                    /\ UNCHANGED <<idx, images_generated>>
               ELSE /\ images_generated' = IF attempt.image THEN Append(images_generated, idx)
                                           ELSE images_generated
                    /\ idx' = Advance(idx)
                    /\ UNCHANGED <<raised, pc>>
     ELSE /\ idx' = 1
          /\ pc' = "hybrid_fusion"
          /\ UNCHANGED <<now, genCalls, raised, images_generated>>
  /\ UNCHANGED <<state, visited, builder, tools, comfyui, classifier, entry, user_input, start_time, task,
                 nodes_created, graphCalls, attempted, result>>

\* lines 345-359: step 2, one fusion step per step when a builder exists;
\* then the result
HybridFusion ==
  /\ pc = "hybrid_fusion"
  /\ IF HybridBuilderPresent /\ idx <= Len(task.fusion_steps)
     THEN GraphStep /\ UNCHANGED result
     ELSE /\ result' = IterationResult(TRUE, 0, "complete",
                          Message("Generated {} images + {} nodes",
                                  <<Len(images_generated), Len(nodes_created)>>),
                          nodes_created, images_generated, NoError)
          /\ pc' = "exec_return"
          /\ UNCHANGED <<now, graphCalls, attempted, raised, idx, nodes_created>>
  /\ UNCHANGED <<state, visited, builder, tools, comfyui, classifier, entry, user_input, start_time, task,
                 images_generated, genCalls>>

\* lines 227-234, 293-300, 361-368: `except Exception` of the executor
ExecutorExcept ==
  /\ pc = "exec_except"
  /\ IF Catches(raised)
     THEN /\ result' = ExecutorHandlerResult(state, raised)
          /\ raised' = NoExc
          /\ pc' = "exec_return"
     ELSE /\ pc' = IF entry = "process_request" THEN "except" ELSE "returned"
          /\ UNCHANGED <<result, raised>>
  /\ UNCHANGED <<state, visited, builder, tools, comfyui, classifier, now, entry, user_input,
                 start_time, task,
                 idx, nodes_created, images_generated, graphCalls, attempted, genCalls>>

\* The executor returns.  In process_request, lines 133-142: the duration
\* is set, the warning appended when it exceeds the limit, state = COMPLETE.
ExecutorReturn ==
  /\ pc = "exec_return"
  /\ IF entry = "process_request"
     THEN LET duration == now - start_time IN
          /\ result' = [result EXCEPT
                          !.duration = duration,
                          !.message.warning = (duration > iteration_limit)]
          /\ SetState("complete")
     ELSE UNCHANGED <<result, state, visited>>
  /\ pc' = "returned"
  /\ UNCHANGED <<builder, tools, comfyui, classifier, now, entry, user_input, start_time, task, idx,
                 nodes_created, images_generated, graphCalls, attempted, genCalls, raised>>

\* a caller that holds the plan route returned invokes the executor of the
\* plan's task_type with it
CallExecutor ==
  /\ pc = "returned"
  /\ entry = "route"
  /\ result.kind = "RoutedTask"
  /\ task' = result
  /\ result' = None
  /\ entry' = CASE result.task_type = "fusion" -> "_execute_fusion_task"
                [] result.task_type = "comfyui" -> "_execute_comfyui_task"
                [] OTHER -> "_execute_hybrid_task"
  /\ pc' = CASE result.task_type = "fusion" -> "fusion_enter"
             [] result.task_type = "comfyui" -> "comfyui_enter"
             [] OTHER -> "hybrid_enter"
  /\ UNCHANGED <<state, visited, builder, tools, comfyui, classifier, now, user_input, start_time, idx,
                 nodes_created, images_generated, graphCalls, attempted, genCalls, raised>>

\* A caller puts a client of its own making in place of the None that
\* construction leaves in self.comfyui (line 88 is the only assignment of a
\* client in the code); the executors' code for a client in place is
\* followed from here.
AttachComfyUI ==
  /\ pc = "idle"
  /\ ~comfyui
  /\ comfyui' = TRUE
  /\ UNCHANGED <<state, visited, builder, tools, classifier, now, entry, pc, user_input,
                 start_time, locals>>

\* assistant.py:419-433  get_status(): the dict is built entry by entry;
\* a method that its object does not have raises AttributeError
GetStatus ==
  /\ pc = "idle"
  /\ entry' = "get_status"
  /\ pc' = "returned"
  /\ IF "is_connected" \notin ResolveAIControllerMethods
     THEN /\ raised' = Exc("AttributeError",
                           "'ResolveAIController' object has no attribute 'is_connected'")
          /\ result' = None
     ELSE IF comfyui /\ "check_connection" \notin ComfyUIClientMethods
     THEN /\ raised' = Exc("AttributeError",
                           "'ComfyUIClient' object has no attribute 'check_connection'")
          /\ result' = None
     ELSE /\ raised' = NoExc
          /\ \E connected \in (IF comfyui THEN BOOLEAN ELSE {FALSE}) :
               result' = [kind |-> "status", state |-> state,
                          fusion_available |-> builder, comfyui_available |-> connected]
  /\ UNCHANGED <<state, visited, builder, tools, comfyui, classifier, now, user_input, start_time,
                 task, idx, nodes_created, images_generated, graphCalls, attempted, genCalls>>

\* the caller has the outcome; the object waits for the next call
Return ==
  /\ pc = "returned"
  /\ pc' = "idle"
  /\ entry' = "none"
  /\ user_input' = {}
  /\ start_time' = 0
  /\ task' = None
  /\ idx' = 1
  /\ nodes_created' = <<>>
  /\ images_generated' = <<>>
  /\ graphCalls' = <<>>
  /\ attempted' = <<>>
  /\ genCalls' = <<>>
  /\ raised' = NoExc
  /\ result' = None
  /\ visited' = <<>>
  /\ now' = 0
  /\ UNCHANGED <<state, builder, tools, comfyui, classifier>>

Next ==
  \/ ProcessRequest
  \/ Analyze
  \/ RouteCall
  \/ Route
  \/ Dispatch
  \/ Except
  \/ FusionEnter
  \/ FusionLoop
  \/ ComfyUIEnter
  \/ ComfyUILoop
  \/ HybridEnter
  \/ HybridGenerate
  \/ HybridFusion
  \/ ExecutorExcept
  \/ ExecutorReturn
  \/ CallExecutor
  \/ AttachComfyUI
  \/ GetStatus
  \/ Return

Spec == Init /\ [][Next]_vars

\* --------------------------------------------------------------- classifier
\* A TaskRouter on its own: a caller invokes route(user_request), and may
\* invoke it a second time with the same request while the advisor prints
\* what it printed the first time.  Requests draw on a wider vocabulary here.
ClassifierWords == {"background", "text", "glow", "transform", "dragon", "red", Quoted}
\* the words of "generate a fantasy dragon scene"
GenerationScenarioRequest == {"generate", "fantasy", "dragon", "scene"}
ClassifierRequests == SUBSET ClassifierWords \cup {GenerationScenarioRequest}

\* what leaves a route call: the exception, or the plan
Outcome(routed) == [exc |-> routed.exc, value |-> routed.value]

\* an advisor that may print anything on the second call
AdvisorAnew ==
  {[suggest |-> a, break_down |-> b] : a \in AdvisorOutcomes, b \in BreakdownOutcomes}

\* the advisor prints on the second call what it printed on the first
AdvisorAgain == {advice}

InitClassify ==
  /\ state = "idle"
  /\ builder = FALSE
  /\ comfyui = FALSE
  /\ entry = "none"
  /\ pc = "idle"
  /\ result = None
  /\ AtRest

\* a caller invokes router.route(user_request)
ClassifyCall ==
  /\ pc = "idle"
  /\ \E req \in ClassifierRequests : user_input' = req
  /\ entry' = "route"
  /\ pc' = "classify"
  /\ UNCHANGED <<state, visited, builder, tools, comfyui, classifier, now, start_time, locals>>

\* task_router.py:38-46  the call runs and its outcome goes to the caller
Classify ==
  /\ pc = "classify"
  /\ \E adv \in AdvisorOutcomes : \E bd \in BreakdownsAfter(user_input, adv) :
       LET routed == route(user_input, adv, bd) IN
       /\ advice' = [suggest |-> adv, break_down |-> bd]
       /\ raised' = routed.exc
       /\ result' = routed.value
  /\ pc' = "classified"
  /\ UNCHANGED <<state, visited, builder, tools, comfyui, now, entry, user_input, start_time, task,
                 idx, nodes_created, images_generated, graphCalls, attempted, genCalls, second>>

\* the caller invokes route a second time with the same request
ClassifyAgain ==
  /\ pc = "classified"
  /\ \E a \in AdvisorAgain :
       second' = Outcome(route(user_input, a.suggest, a.break_down))
  /\ pc' = "classified_twice"
  /\ UNCHANGED <<state, visited, builder, tools, comfyui, now, entry, user_input, start_time, locals,
                 advice>>

\* the caller is done with the router
ClassifyReturn ==
  /\ pc \in {"classified", "classified_twice"}
  /\ pc' = "idle"
  /\ entry' = "none"
  /\ user_input' = {}
  /\ raised' = NoExc
  /\ result' = None
  /\ advice' = None
  /\ second' = None
  /\ UNCHANGED <<state, visited, builder, tools, comfyui, now, start_time, task, idx,
                 nodes_created, images_generated, graphCalls, attempted, genCalls>>

NextClassify ==
  \/ ClassifyCall
  \/ Classify
  \/ ClassifyAgain
  \/ ClassifyReturn

SpecClassify == InitClassify /\ [][NextClassify]_vars

\* ------------------------------------------------------------------- claims
ExecutorEntries ==
  {"_execute_fusion_task", "_execute_comfyui_task", "_execute_hybrid_task"}
Returned(e) == entry = e /\ pc = "returned"
PlanIs(tt) == task.kind = "RoutedTask" /\ task.task_type = tt
IsResult == result.kind = "IterationResult"
\* the error texts of the three backend-unavailable results
BackendUnavailableErrors ==
  {FusionUnavailableResult.error, ComfyUIUnavailableResult.error,
   HybridUnavailableResult.error}
\* the messages that name the missing generation backend
GenerationUnavailableMessages ==
  {ComfyUIUnavailableResult.message.fmt, HybridUnavailableResult.message.fmt}
\* the messages of the results built by an exception handler
HandlerMessages ==
  {"Error processing request", "Failed to create Fusion nodes",
   "Failed to generate AI images", "Failed to execute hybrid task"}
StepsOf(log) == [i \in 1..Len(log) |-> log[i].step]
FailedIn(log) == Cardinality({i \in 1..Len(log) : ~log[i].node})

\* C1: process_request returns exactly one IterationResult whatever the
\* advisor and the backends do; no exception leaves it, and a failure is
\* data on the result: success = false together with an error text.
C1_OneResultNoEscape ==
  Returned("process_request") =>
    /\ IsResult
    /\ raised = NoExc
    /\ (~result.success => result.error # NoError)

\* C1: a request whose routing raised (a breakdown element that is not an
\* object) came back as a failure result.
C1_Witness ==
  /\ Returned("process_request")
  /\ IsResult
  /\ ~result.success
  /\ result.error = "object has no attribute 'get'"

\* C2: with no builder and a 'fusion' plan, process_request returns
\* success = false with the error of the missing graph backend, a duration
\* >= 0, and no graph step was attempted.
C2_GraphUnavailableFailFast ==
  (Returned("process_request") /\ ~builder /\ PlanIs("fusion")) =>
    /\ IsResult
    /\ ~result.success
    /\ result.error = FusionUnavailableResult.error
    /\ result.duration >= 0
    /\ graphCalls = <<>>
    /\ attempted = <<>>

\* C2, at the executor: _execute_fusion_task itself fails fast.
FusionExecutorFailsFast ==
  (Returned("_execute_fusion_task") /\ ~builder) =>
    /\ result = FusionUnavailableResult
    /\ graphCalls = <<>>
    /\ attempted = <<>>

\* C3: with no ComfyUI client and a 'comfyui' plan, process_request returns
\* success = false, no generated image, a message naming the missing
\* generation backend, and generate was never called.
C3_GenerationUnavailableFailFast ==
  (Returned("process_request") /\ ~comfyui /\ PlanIs("comfyui")) =>
    /\ IsResult
    /\ ~result.success
    /\ result.images_generated = <<>>
    /\ result.message.fmt \in GenerationUnavailableMessages
    /\ genCalls = <<>>

\* C3, at the executor: _execute_comfyui_task itself fails fast.
ComfyUIExecutorFailsFast ==
  (Returned("_execute_comfyui_task") /\ ~comfyui) =>
    /\ result = ComfyUIUnavailableResult
    /\ genCalls = <<>>

\* C4: a hybrid plan with no ComfyUI client is aborted: at no point of the
\* call is a graph step handed to the builder, and the call returns
\* success = false, also when a builder exists.
C4_HybridAbortsWithoutGeneration ==
  (entry \in {"process_request", "_execute_hybrid_task"} /\ ~comfyui /\ PlanIs("hybrid")) =>
    /\ graphCalls = <<>>
    /\ attempted = <<>>
    /\ pc = "returned" => (IsResult /\ ~result.success)

\* C4: the hybrid executor returned the ComfyUI-unavailable result for a
\* plan whose graph steps are all of a known kind, with a builder present.
C4_Witness ==
  /\ Returned("_execute_hybrid_task")
  /\ ~comfyui
  /\ builder
  /\ task.fusion_steps # <<>>
  /\ \A i \in 1..Len(task.fusion_steps) : task.fusion_steps[i].type \in KnownNodeTypes
  /\ result = HybridUnavailableResult

\* C5: a hybrid plan with graph steps and no builder (ComfyUI present) is
\* reported as a backend-unavailable failure, not as a success with the
\* graph phase left out.  Stated of the result of the hybrid executor,
\* which is the result process_request is to hand on.
C5_HybridGraphUnavailableFails ==
  (Returned("_execute_hybrid_task") /\ ~builder /\ comfyui
     /\ PlanIs("hybrid") /\ task.fusion_steps # <<>>) =>
    /\ IsResult
    /\ ~result.success
    /\ result.error \in BackendUnavailableErrors

\* C6: with a builder and a 'fusion' plan of n steps of which k < n fail,
\* process_request has attempted every step in order, nodes_created has
\* n-k entries and success = true.
C6_BestEffortGraphSteps ==
  (Returned("process_request") /\ builder /\ PlanIs("fusion")) =>
    LET n == Len(task.fusion_steps)
        k == FailedIn(attempted)
    IN  /\ IsResult
        /\ StepsOf(attempted) = [i \in 1..n |-> i]
        /\ Len(result.nodes_created) = n - k
        /\ (k < n => result.success)

\* C6, at the executor: _execute_fusion_task itself attempts every step,
\* keeps the n-k nodes and reports success.
FusionExecutorBestEffort ==
  (Returned("_execute_fusion_task") /\ builder) =>
    LET n == Len(task.fusion_steps)
        k == FailedIn(attempted)
    IN  /\ StepsOf(attempted) = [i \in 1..n |-> i]
        /\ Len(result.nodes_created) = n - k
        /\ result.success

\* C7: a result built by an exception handler has success = false, the
\* exception text as error, and the nodes and images accumulated before the
\* exception.
C7_PartialProgressSurfaced ==
  (pc = "returned" /\ entry \in ExecutorEntries \cup {"process_request"}
     /\ IsResult /\ result.message.fmt \in HandlerMessages) =>
    /\ ~result.success
    /\ result.error # NoError
    /\ result.nodes_created = nodes_created
    /\ result.images_generated = images_generated

\* C8: an executor that completes without exception reports success = true,
\* unless the plan had steps and produced no artifact: then success = false
\* with no error.  Stated with a builder present, so that no phase of the
\* plan was left out.
C8_SoftFailureWithoutArtifacts ==
  (pc = "returned" /\ entry \in ExecutorEntries \cup {"process_request"}
     /\ builder /\ IsResult /\ result.state = "complete") =>
    LET required == Len(task.fusion_steps) + Len(task.comfyui_prompts) > 0
        produced == Len(result.nodes_created) + Len(result.images_generated)
    IN  /\ result.error = NoError
        /\ result.success = ~(required /\ produced = 0)

\* C9: route returns a plan to its caller whatever the advisor does; no
\* exception leaves it.
C9_RouteNeverRaises ==
  Returned("route") => (raised = NoExc /\ result.kind = "RoutedTask")

\* C10: an exception raised while the state is Analyzing or Routing takes
\* process_request to its handler: the state becomes Error and the call
\* returns a result with state Error, success = false, the exception text as
\* error and a duration >= 0, no builder or generate call having been made.
C10_ClassificationFailure ==
  [][(pc = "except" /\ state \in {"analyzing", "routing"}) =>
       /\ pc' = "returned"
       /\ state' = "error"
       /\ result'.kind = "IterationResult"
       /\ result'.state = "error"
       /\ ~result'.success
       /\ result'.error = raised.text
       /\ result'.duration >= 0
       /\ graphCalls' = <<>>
       /\ attempted' = <<>>
       /\ genCalls' = <<>>]_vars

\* C10: a request whose analysis or routing raised took a tick of the clock
\* and came back as an Error result carrying the advisor's failure.
C10_Witness ==
  /\ Returned("process_request")
  /\ state = "error"
  /\ IsResult
  /\ result.state = "error"
  /\ result.error = "Copilot CLI error"
  /\ result.duration = 1
  /\ graphCalls = <<>>
  /\ genCalls = <<>>

\* ---------------------------------------------------------------- lifecycle
ExecutingStates == {"executing_fusion", "executing_comfyui", "executing_hybrid"}
NonTerminalStates == {"idle", "analyzing", "routing"} \cup ExecutingStates
\* Idle -> Analyzing -> Routing -> executing -> Complete, and Error after any
\* state that is not terminal
LifecycleEdges ==
  {<<"idle", "analyzing">>, <<"analyzing", "routing">>}
  \cup {<<"routing", e>> : e \in ExecutingStates}
  \cup {<<e, "complete">> : e \in ExecutingStates}
  \cup {<<n, "error">> : n \in NonTerminalStates}
ExecutingStateOf(tt) ==
  CASE tt = "fusion" -> "executing_fusion"
    [] tt = "comfyui" -> "executing_comfyui"
    [] OTHER -> "executing_hybrid"
\* the positions of visited that hold an executing state
ExecutingVisits == {i \in 1..Len(visited) : visited[i] \in ExecutingStates}

\* C11: during a process_request call every change of the state, the one
\* from the state found at entry included, is an edge of the lifecycle.
C11_LifecycleOnly ==
  entry = "process_request" =>
    \A i \in 1..(Len(visited) - 1) : <<visited[i], visited[i + 1]>> \in LifecycleEdges

\* C11, after the first assignment: Analyzing comes first, Routing only after
\* Analyzing, an executing state only after Routing, Complete only after an
\* executing state, Error only after a state that is not terminal.
LifecycleAfterEntry ==
  entry = "process_request" =>
    /\ Len(visited) >= 2 => visited[2] = "analyzing"
    /\ \A i \in 2..(Len(visited) - 1) : <<visited[i], visited[i + 1]>> \in LifecycleEdges

\* C12: when process_request returns and routing produced a plan, exactly
\* one executing state was entered during the call, the one of the plan's
\* task_type.
C12_OneMatchingExecutingState ==
  (Returned("process_request") /\ task.kind = "RoutedTask") =>
    /\ Cardinality(ExecutingVisits) = 1
    /\ \A i \in ExecutingVisits : visited[i] = ExecutingStateOf(task.task_type)

\* C12, at the executors: once entered, each executor has set the executing
\* state of its own task_type.
ExecutorSetsItsState ==
  (entry \in ExecutorEntries /\ pc \notin {"fusion_enter", "comfyui_enter", "hybrid_enter"}) =>
    state = ExecutingStateOf(task.task_type)

\* C13: the state found at entry to every process_request call is Idle.
C13_StartsFromIdle ==
  entry = "process_request" => visited[1] = "idle"

\* --------------------------------------------------------- classifier claims
Classified == entry = "route" /\ pc = "classified"
PlanReturned == Classified /\ result.kind = "RoutedTask"
\* keywords of a list found in the request or in the advisor's free text
Hits(keywords) == Cardinality(keywords \cap (user_input \cup advice.suggest.words))
\* the words _extract_fusion_steps looks for
StepVocabulary ==
  {"background", "text", "title", "lower-third", "subtitle", "glow", "blur",
   "move", "position", "transform", "scale", "rotate"}
StepRank(t) ==
  CASE t = "background" -> 1 [] t = "text" -> 2 [] t = "glow" -> 3
    [] t = "blur" -> 4 [] t = "transform" -> 5 [] OTHER -> 0

C15_PlanNeverEmpty ==
  PlanReturned =>
    /\ Len(result.fusion_steps) + Len(result.comfyui_prompts) >= 1
    /\ Len(result.execution_order) >= 1
    /\ (result.task_type = "fusion" /\ user_input \cap StepVocabulary = {}) =>
         /\ Len(result.fusion_steps) = 1
         /\ result.fusion_steps[1].type = "generic"
         /\ result.fusion_steps[1].description = user_input

\* C15, away from the step breakdown: a 'fusion' or 'comfyui' plan is never
\* empty, and the generic step carries the request.
PlanNeverEmptyUnlessHybrid ==
  (PlanReturned /\ result.task_type # "hybrid") =>
    /\ Len(result.fusion_steps) >= 1
    /\ Len(result.execution_order) >= 1
    /\ (result.task_type = "fusion" /\ user_input \cap StepVocabulary = {}) =>
         result.fusion_steps = <<Step("generic", user_input, NoParams)>>

\* C16: when the advisor printed free text, the category of the plan is
\* 'comfyui' if the generation hits exceed the graph hits, else 'hybrid' if
\* both are nonzero, else 'fusion'.
C16_CategoryFromHitCounts ==
  (PlanReturned /\ advice.suggest.kind = "text") =>
    LET generation == Hits(ai_keywords)
        graph == Hits(fusion_keywords)
    IN  result.task_type =
          IF generation > graph THEN "comfyui"
          ELSE IF generation > 0 /\ graph > 0 THEN "hybrid"
          ELSE "fusion"

\* C16: equal nonzero hit counts on the free-text path gave a hybrid plan.
C16_Witness ==
  /\ PlanReturned
  /\ advice.suggest.kind = "text"
  /\ Hits(ai_keywords) = Hits(fusion_keywords)
  /\ Hits(ai_keywords) > 0
  /\ result.task_type = "hybrid"

\* a request with a graph keyword and no generation keyword
GraphOnlyRequest ==
  /\ user_input \cap fusion_keywords # {}
  /\ user_input \cap ai_keywords = {}
\* an advisor answer that names no other category: JSON whose task_type is
\* 'fusion' or absent, or free text without generation keyword
AdvisorNamesNoOtherCategory ==
  \/ advice.suggest.kind = "json" /\ advice.suggest.task_type \in {"fusion", "<missing>"}
  \/ advice.suggest.kind = "text" /\ advice.suggest.words \cap ai_keywords = {}

\* C17 as stated: for a request with a graph keyword and no generation
\* keyword, the plan route returns is a 'fusion' plan whatever the advisor
\* printed.
C17_GraphKeywordsOnly ==
  (PlanReturned /\ GraphOnlyRequest) => result.task_type = "fusion"

\* C17, amended: for such a request route returns a 'fusion' plan when the
\* advisor's answer names no other category.
C17_GraphKeywordsOnlyUnlessAdvised ==
  (Classified /\ GraphOnlyRequest /\ AdvisorNamesNoOtherCategory) =>
    (result.kind = "RoutedTask" /\ result.task_type = "fusion")

\* C17: a request with graph keywords only, answered with free text about
\* nodes, was classified 'fusion'.
C17_Witness ==
  /\ Classified
  /\ GraphOnlyRequest
  /\ advice.suggest.kind = "text"
  /\ advice.suggest.words = {"node"}
  /\ result.kind = "RoutedTask"
  /\ result.task_type = "fusion"

\* C18: a request without any vocabulary word, the empty string among them,
\* is never rejected and yields a 'fusion' plan of exactly one step, the
\* generic one.
C18_EmptyRequest ==
  (Classified /\ user_input = {}) =>
    /\ raised = NoExc
    /\ result.kind = "RoutedTask"
    /\ result.task_type = "fusion"
    /\ Len(result.fusion_steps) = 1
    /\ result.fusion_steps[1].type = "generic"
    /\ result.comfyui_prompts = <<>>

ScenarioRequest == {"background", "text", "red", Quoted}
AdvisorUnreachable ==
  advice.suggest.kind \in {"FileNotFoundError", "TimeoutExpired", "nonzero"}
ScenarioPlan ==
  /\ result.kind = "RoutedTask"
  /\ result.task_type = "fusion"
  /\ Len(result.fusion_steps) = 2
  /\ result.fusion_steps[1].type = "background"
  /\ result.fusion_steps[1].params.color = <<10, 0, 0, 10>>
  /\ result.fusion_steps[2].type = "text"
  /\ result.fusion_steps[2].params.text = "Hello"
  /\ Len(result.execution_order) = 2
\* execution_order is fusion_0, fusion_1, ... and the steps come in the
\* order background, text, glow, blur, transform
GraphOnlyShape ==
  /\ result.execution_order =
       [i \in 1..Len(result.fusion_steps) |-> [list |-> "fusion", index |-> i - 1]]
  /\ \A i, j \in 1..Len(result.fusion_steps) :
       i < j => StepRank(result.fusion_steps[i].type) < StepRank(result.fusion_steps[j].type)

\* C20: a 'fusion' plan has one execution_order entry per graph step in
\* list order, the steps in the fixed order; and with the advisor out of
\* reach the scenario request yields the 'fusion' plan of a red background
\* and the text "Hello".
C20_GraphOnlyOrderAndScenario ==
  /\ (PlanReturned /\ result.task_type = "fusion") => GraphOnlyShape
  /\ (Classified /\ user_input = ScenarioRequest /\ AdvisorUnreachable) => ScenarioPlan

\* C20, the order alone
GraphOnlyPlanInListOrder ==
  (PlanReturned /\ result.task_type = "fusion") => GraphOnlyShape

\* C20, the scenario with an advisor in reach that prints free text without
\* keywords
ScenarioWithQuietAdvisor ==
  (Classified /\ user_input = ScenarioRequest
     /\ advice.suggest.kind = "text" /\ advice.suggest.words = {}) => ScenarioPlan

\* ------------------------------------------- construction and status query
\* C29: get_status can be called in every state of the orchestrator: it
\* never raises, returns the current state and the two availability flags,
\* and changes nothing.
C29_StatusQueryAlwaysAnswers ==
  Returned("get_status") =>
    /\ raised = NoExc
    /\ result.kind = "status"
    /\ result.state = state
    /\ result.fusion_available = builder
    /\ result.comfyui_available = comfyui

\* C29, the frame alone: the call leaves state and both backends as they are
GetStatusChangesNothing ==
  [][GetStatus => UNCHANGED <<state, builder, tools, comfyui>>]_vars

\* C29, what the call does in every state
GetStatusAlwaysRaises ==
  Returned("get_status") => raised.class = "AttributeError" /\ result = None

\* C30: the probe of construction fixes the availability of generation: a
\* probe that succeeds leaves the backend available, a probe that fails or
\* raises leaves construction successful with generation disabled.
C30_AvailabilityFixedByProbe ==
  Returned("__init__") =>
    /\ result.kind = "ResolveAssistant"
    /\ (result.probe = "200") <=> comfyui

\* C30, the half about a failing probe
FailedProbeDisablesGeneration ==
  (Returned("__init__") /\ result.probe # "200") => ~comfyui

\* C30, what construction does for every probe outcome
ConstructionDisablesGeneration ==
  Returned("__init__") => ~comfyui

\* --------------------------------------------------------- generation plans
\* one prompt, one load step after it
GenerationOnlyShape ==
  /\ Len(result.comfyui_prompts) = 1
  /\ Len(result.fusion_steps) = 1
  /\ result.fusion_steps[1].type = "loader"
  /\ result.execution_order = <<ComfyRef(0), FusionRef(0)>>

\* the scenario request came back as a 'comfyui' plan whose prompt names
\* the dragon
GenerationScenarioPlan ==
  /\ result.task_type = "comfyui"
  /\ Len(result.comfyui_prompts) = 1
  /\ result.comfyui_prompts[1].kind = "str"
  /\ "dragon" \in result.comfyui_prompts[1].words

\* the advisor's answer puts the request in the generation category: JSON
\* that names 'comfyui', or free text with more generation hits than graph
\* hits over request and text together
AdvisorFavoursGeneration ==
  \/ advice.suggest.kind = "json" /\ advice.suggest.task_type = "comfyui"
  \/ advice.suggest.kind = "text" /\ Hits(ai_keywords) > Hits(fusion_keywords)

\* C21 as stated: every 'comfyui' plan has exactly one prompt and exactly
\* one trailing load step, execution_order being the generation entry and
\* then the load entry; and every plan for "generate a fantasy dragon scene"
\* is a 'comfyui' plan whose prompt contains "dragon".
C21_GenerationOnlyPlan ==
  /\ (PlanReturned /\ result.task_type = "comfyui") => GenerationOnlyShape
  /\ (PlanReturned /\ user_input = GenerationScenarioRequest) => GenerationScenarioPlan

\* C21 with the advisor's part: the shape for every 'comfyui' plan, the
\* scenario's category and prompt when the advisor's answer favours
\* generation.
C21_GenerationOnlyPlanWhenAdvised ==
  /\ (PlanReturned /\ result.task_type = "comfyui") => GenerationOnlyShape
  /\ (PlanReturned /\ user_input = GenerationScenarioRequest /\ AdvisorFavoursGeneration)
       => GenerationScenarioPlan

C21_Witness ==
  /\ PlanReturned
  /\ user_input = GenerationScenarioRequest
  /\ advice.suggest.kind = "text"
  /\ advice.suggest.words = {}
  /\ GenerationOnlyShape
  /\ GenerationScenarioPlan

\* a prompt that is a string with something in it
NonEmptyString(prompt) == prompt.kind = "str" /\ prompt.words # {}

\* the advisor's step breakdown did not come as a JSON array
BreakdownFallback == advice.break_down.kind = "other"

\* C22: a plan of a category that needs generation ('comfyui' or 'hybrid')
\* has at least one prompt, and every prompt is a non-empty string, also
\* when break_down_task fell back to its single step.
C22_PromptsForGeneration ==
  (PlanReturned /\ result.task_type \in {"comfyui", "hybrid"}) =>
    /\ Len(result.comfyui_prompts) >= 1
    /\ \A i \in 1..Len(result.comfyui_prompts) : NonEmptyString(result.comfyui_prompts[i])

\* C22 for the 'comfyui' category alone
GenerationOnlyPromptNonEmpty ==
  (PlanReturned /\ result.task_type = "comfyui") =>
    /\ Len(result.comfyui_prompts) = 1
    /\ NonEmptyString(result.comfyui_prompts[1])

\* C22, what the fallback gives: a 'hybrid' plan of one graph step and no
\* prompt
FallbackPlanHasNoPrompt ==
  (PlanReturned /\ result.task_type = "hybrid" /\ BreakdownFallback) =>
    /\ result.comfyui_prompts = <<>>
    /\ Len(result.fusion_steps) = 1

\* ------------------------------------------------------- iteration budget
\* the steps 1, 2, ... of the plan, each gone through once and in order
AllGraphStepsAttempted ==
  StepsOf(attempted) = [i \in 1..Len(task.fusion_steps) |-> i]

\* C23: the iteration budget never cancels or truncates work: whatever
\* time has passed, process_request attempts every step of the plan it
\* routed, and the one effect of a duration above iteration_limit is the
\* warning on the message.
C23_BudgetNeverTruncates ==
  (Returned("process_request") /\ PlanIs("fusion") /\ builder) =>
    /\ IsResult
    /\ AllGraphStepsAttempted
    /\ result.message.warning <=> (result.duration > iteration_limit)

\* C23 at the executor: _execute_fusion_task does not look at the clock;
\* when no step raises, every step is attempted however late it is
FusionExecutorIgnoresClock ==
  (Returned("_execute_fusion_task") /\ builder /\ IsResult /\ result.success) =>
    AllGraphStepsAttempted

\* a run of the graph executor that went past the budget
FusionExecutorOverBudget ==
  /\ Returned("_execute_fusion_task")
  /\ builder
  /\ IsResult
  /\ result.success
  /\ now > iteration_limit
  /\ Len(attempted) >= 1

\* C24: on every path through process_request the returned message
\* carries the budget warning exactly when the measured duration is
\* above iteration_limit.
C24_WarningIffOverBudget ==
  (Returned("process_request") /\ IsResult) =>
    (result.message.warning <=> (result.duration > iteration_limit))

\* C24, what the exception path does: the duration is measured, the
\* warning never appended
HandlerNeverWarns ==
  (Returned("process_request") /\ IsResult) =>
    /\ result.duration = now - start_time
    /\ ~result.message.warning

\* a call that took longer than the budget and says nothing about it
SilentlyOverBudget ==
  /\ Returned("process_request")
  /\ IsResult
  /\ result.duration > iteration_limit
  /\ ~result.message.warning

\* ------------------------------------------------------ generation phase
GenerationEntries == {"_execute_comfyui_task", "_execute_hybrid_task"}
\* an executor with a generation loop has returned from a plan of several
\* prompts, the client being in place
SeveralPromptsExecuted ==
  /\ entry \in GenerationEntries
  /\ pc = "returned"
  /\ comfyui
  /\ Len(task.comfyui_prompts) >= 2

\* C25: in a plan of several prompts a prompt whose generation fails does
\* not abort the others: every prompt of the plan is submitted to the
\* generation backend, and the result lists the images of those that
\* succeeded.
C25_FailedPromptDoesNotAbort ==
  SeveralPromptsExecuted =>
    /\ [i \in 1..Len(genCalls) |-> genCalls[i].prompt]
         = [i \in 1..Len(task.comfyui_prompts) |-> i]
    /\ IsResult
    /\ result.images_generated = images_generated

\* C25, what the loop does: the first prompt ends the loop with an
\* exception; no later prompt is submitted and the result lists no image
GenerationStopsAtFirstPrompt ==
  SeveralPromptsExecuted =>
    /\ Len(genCalls) <= 1
    /\ \A i \in 1..Len(genCalls) : genCalls[i].prompt = 1
    /\ IsResult
    /\ ~result.success
    /\ result.images_generated = <<>>

\* ----------------------------------------------------------- hybrid phases
\* the hybrid executor has returned from a plan with prompts and graph
\* steps, both backends being there
HybridBothPhasesDue ==
  /\ Returned("_execute_hybrid_task")
  /\ comfyui
  /\ builder
  /\ Len(task.comfyui_prompts) >= 1
  /\ Len(task.fusion_steps) >= 1

\* every generate call was made before the first builder call
GenerationBeforeGraph ==
  \A i \in 1..Len(genCalls), j \in 1..Len(graphCalls) : genCalls[i].at < graphCalls[j].at

\* C26: the hybrid executor runs the generation phase fully, then the graph
\* phase fully: every prompt of the plan is submitted before the first
\* graph step is invoked, every graph step is gone through, and the result
\* carries both lists.
C26_HybridPhaseOrdered ==
  HybridBothPhasesDue =>
    /\ Len(genCalls) = Len(task.comfyui_prompts)
    /\ AllGraphStepsAttempted
    /\ GenerationBeforeGraph
    /\ IsResult
    /\ result.images_generated = images_generated
    /\ result.nodes_created = nodes_created

\* C26, the order alone: a graph step of the hybrid executor is gone
\* through only after the loop over the prompts has come to its end
GraphPhaseAfterGenerationPhase ==
  [][(entry = "_execute_hybrid_task" /\ Len(attempted') > Len(attempted))
       => (pc = "hybrid_fusion" /\ GenerationBeforeGraph')]_vars

\* C26, what the executor does with a plan that has a prompt: the first
\* prompt raises, the graph phase is never entered
HybridStopsInGenerationPhase ==
  HybridBothPhasesDue =>
    /\ Len(genCalls) <= 1
    /\ attempted = <<>>
    /\ graphCalls = <<>>
    /\ IsResult
    /\ ~result.success

\* ---------------------------------------------------------- execution order
\* the backend calls of the call in the order they were made, each as the
\* reference execution_order has for it
RECURSIVE InvocationsFrom(_)
InvocationsFrom(n) ==
  IF n > Len(genCalls) + Len(graphCalls) THEN <<>>
  ELSE LET gen == {i \in 1..Len(genCalls) : genCalls[i].at = n}
           graph == {j \in 1..Len(graphCalls) : graphCalls[j].at = n}
       IN  (IF gen # {} THEN <<ComfyRef(genCalls[CHOOSE i \in gen : TRUE].prompt - 1)>>
            ELSE <<FusionRef(graphCalls[CHOOSE j \in graph : TRUE].step - 1)>>)
           \o InvocationsFrom(n + 1)
Invocations == InvocationsFrom(1)

\* a plan whose execution_order is not all prompts, then all graph steps
GraphBeforeGeneration ==
  \E i, j \in 1..Len(task.execution_order) :
    /\ i < j
    /\ task.execution_order[i].list = "fusion"
    /\ task.execution_order[j].list = "comfyui"

\* C27: the backend calls process_request makes for a plan are those of
\* the plan's execution_order, in that order, also when execution_order is
\* not all prompts and then all graph steps.
C27_ExecutionOrderFollowed ==
  (Returned("process_request") /\ task.kind = "RoutedTask") =>
    Invocations = task.execution_order

\* C27 at the hybrid executor with both backends in place; the executor
\* does not keep to it either (see HybridIgnoresExecutionOrder)
HybridFollowsExecutionOrder ==
  (Returned("_execute_hybrid_task") /\ comfyui /\ builder) =>
    Invocations = task.execution_order

\* C27, what the hybrid executor does with a plan that names a graph step
\* first: no graph step is invoked, the first call, if any, is the first
\* prompt's
HybridIgnoresExecutionOrder ==
  (Returned("_execute_hybrid_task") /\ comfyui /\ builder /\ GraphBeforeGeneration) =>
    /\ graphCalls = <<>>
    /\ Invocations \in {<<>>, <<ComfyRef(0)>>}

\* C27, what process_request does: no backend is called
ProcessRequestCallsNoBackend ==
  Returned("process_request") => Invocations = <<>>

\* ------------------------------------------------------------------ no retry
\* no prompt was submitted twice, no graph step gone through twice
EachCalledAtMostOnce ==
  /\ \A i, j \in 1..Len(genCalls) : genCalls[i].prompt = genCalls[j].prompt => i = j
  /\ \A i, j \in 1..Len(graphCalls) : graphCalls[i].step = graphCalls[j].step => i = j
  /\ \A i, j \in 1..Len(attempted) : attempted[i].step = attempted[j].step => i = j

\* C28: nothing is retried: during one call, of process_request or of an
\* executor, each prompt is submitted to the generation backend at most
\* once and each graph step is sent to the graph backend at most once,
\* whether the call fails or not.
C28_NoRetry ==
  (entry \in {"process_request"} \cup ExecutorEntries) => EachCalledAtMostOnce

\* a generate call failed, the call ended in failure and the prompt was
\* submitted that one time
C28_Witness ==
  /\ Returned("_execute_hybrid_task")
  /\ IsResult
  /\ ~result.success
  /\ Len(genCalls) = 1
  /\ genCalls[1].prompt = 1
  /\ Len(task.comfyui_prompts) = 2

\* a graph step failed inside the builder and was not sent again
FailedGraphStepNotRetried ==
  /\ Returned("_execute_fusion_task")
  /\ IsResult
  /\ Len(graphCalls) = 1
  /\ Len(attempted) = 1
  /\ ~attempted[1].node

\* ------------------------------------------------------- generation-only run
\* the loader calls of the call, as the prompts whose image they load
LoadedPrompts ==
  {graphCalls[j].step : j \in {k \in 1..Len(graphCalls) :
                                 graphCalls[k].op = "create_loader_node"}}
\* the prompts whose image the executor has in its list
GeneratedPrompts == {images_generated[i] : i \in 1..Len(images_generated)}

LoaderOnlyWithBuilder ==
  (entry = "_execute_comfyui_task" /\ LoadedPrompts # {}) => builder

\* C31, what the executor does with a prompt: it raises before any image
\* exists, so no loader node is ever asked for
GenerationOnlyNeverLoads ==
  (Returned("_execute_comfyui_task") /\ comfyui /\ Len(task.comfyui_prompts) >= 1) =>
    /\ GeneratedPrompts = {}
    /\ graphCalls = <<>>
    /\ IsResult
    /\ ~result.success

\* ------------------------------------------------------- structured advice
\* the advisor's answer to suggest held a JSON object
AdvisorJson == advice.suggest.kind = "json"

\* the category route takes from the task_type of a parsed object
JsonCategory(task_type) ==
  IF task_type = "<missing>" THEN "fusion"
  ELSE IF task_type \in {"fusion", "comfyui", "hybrid"} THEN task_type
  ELSE "hybrid"

StructuredAdviceWithoutBreakdown ==
  (Classified /\ AdvisorJson /\ JsonCategory(advice.suggest.task_type) # "hybrid") =>
    /\ PlanReturned
    /\ result.task_type = JsonCategory(advice.suggest.task_type)

\* a request full of graph keywords, planned as generation on the JSON's word
KeywordsOverruled ==
  /\ PlanReturned
  /\ AdvisorJson
  /\ Cardinality(user_input \cap fusion_keywords) >= 3
  /\ user_input \cap ai_keywords = {}
  /\ result.task_type = "comfyui"

EmittedStepKinds == {"background", "text", "glow", "blur", "transform", "loader", "generic"}

\* builder call j is the call for step i of the plan, with the parameters
\* the classifier put in the step
DispatchedAsExtracted(i, j) ==
  LET step == task.fusion_steps[i]
      call == graphCalls[j]
  IN  /\ call.step = i
      /\ call.op # "create_loader_node" \/ step.type = "loader"
      /\ step.type = "background" => call.args.color = step.params.color
      /\ step.type = "text" => call.args.text = step.params.text

\* the graph executor went through a plan of the classifier with a builder
\* in place
ClassifierPlanExecuted ==
  /\ Returned("_execute_fusion_task")
  /\ builder
  /\ PlanIs("fusion")
  /\ IsResult

\* C33: every step the classifier emitted is sent to a builder operation,
\* with the colour and the text the classifier extracted; none is dropped
\* as unknown or run with defaults.
C33_StepsDispatchedWithParams ==
  ClassifierPlanExecuted =>
    \A i \in 1..Len(task.fusion_steps) :
      /\ task.fusion_steps[i].type \in EmittedStepKinds
      /\ \E j \in 1..Len(graphCalls) : DispatchedAsExtracted(i, j)

\* C33, the kinds the orchestrator knows: glow, blur and transform steps
\* reach their builder operation
EffectStepsDispatched ==
  ClassifierPlanExecuted =>
    \A i \in 1..Len(task.fusion_steps) :
      task.fusion_steps[i].type \in {"background", "text", "glow", "blur", "transform"} =>
        \E j \in 1..Len(graphCalls) :
          /\ graphCalls[j].step = i
          /\ graphCalls[j].op = BuilderOp(task.fusion_steps[i].type)

\* C33, what happens to the extracted colour: the background is created
\* with the default black whatever the step's params.color is
BackgroundGetsDefaultColour ==
  ClassifierPlanExecuted =>
    \A j \in 1..Len(graphCalls) :
      graphCalls[j].op = "create_background_node" =>
        /\ graphCalls[j].args.color = <<0, 0, 0, 10>>
        /\ task.fusion_steps[graphCalls[j].step].params.color # <<0, 0, 0, 10>>

\* C33, what happens to a generic step: no builder operation, no node
GenericStepDropped ==
  ClassifierPlanExecuted =>
    \A i \in 1..Len(task.fusion_steps) :
      task.fusion_steps[i].type = "generic" =>
        /\ \A j \in 1..Len(graphCalls) : graphCalls[j].step # i
        /\ result.nodes_created = <<>>

ExecutorLeavesExecutingState ==
  \A e \in ExecutorEntries : (Returned(e) /\ IsResult) => state \in ExecutingStates

\* C35: in every result process_request returns, success goes with state
\* 'complete' and no error, failure goes with an error text, and duration
\* is the time measured from the start of the call.
C35_ResultFieldsAgree ==
  (Returned("process_request") /\ IsResult) =>
    /\ result.success => (result.state = "complete" /\ result.error = NoError)
    /\ ~result.success => (result.error # NoError /\ result.error # "")
    /\ result.duration = now - start_time
    /\ result.duration >= 0

\* a failed call that took time: the duration is the measured one
C35_Witness ==
  /\ Returned("process_request")
  /\ IsResult
  /\ ~result.success
  /\ result.error = "FUSION_ONLY"
  /\ result.duration = 2
  /\ now - start_time = 2


\* ------------------------------------------------------------------------
\* FusionNodeBuilder (fusion_tools.py): the composition and the builder's
\* record of the nodes it created
\* ------------------------------------------------------------------------

\* the composition takes no more tools than this
MaxTools == 2

\* node types and names the builder is called with; "" stands for no name
NodeTypes == {"Background", "Text+"}
NodeNames == {"", "BG"}

\* the name Fusion gives a new tool
DefaultName(node_type, id) == node_type \o ToString(id)

\* a function without one of its keys
Without(f, k) == [x \in DOMAIN f \ {k} |-> f[x]]

\* what a builder call leaves behind: the composition, the record, the
\* number of tools made, and the value returned (0 stands for None)
Built(c, cn, m, ret) == [comp |-> c, created_nodes |-> cn, made |-> m, ret |-> ret]

\* what comp.AddTool and tool.SetAttrs can do to one create_node call
AddToolOutcomesAt(m) ==
  IF m < MaxTools THEN {"ok", "AddTool None", "AddTool raises", "SetAttrs raises"}
                  ELSE {"AddTool None", "AddTool raises"}

AddToolOutcomes == AddToolOutcomesAt(made)

\* create_node (fusion_tools.py:43-95)
create_node(b, node_type, name, outcome) ==
  LET id == b.made + 1
      default_name == DefaultName(node_type, id)
  IN  IF outcome \in {"AddTool None", "AddTool raises"}
        THEN Built(b.comp, b.created_nodes, b.made, 0)
      ELSE IF outcome = "SetAttrs raises"
        THEN Built(b.comp @@ (id :> default_name), b.created_nodes, id, 0)
      ELSE IF name # ""
        THEN Built(b.comp @@ (id :> name),
                   (name :> id) @@ b.created_nodes, id, id)
        ELSE Built(b.comp @@ (id :> default_name),
                   (default_name :> id) @@ b.created_nodes, id, id)

\* get_node_by_name (fusion_tools.py:31-41): the tool of that name, or 0
get_node_by_name(b, name) ==
  LET found == {id \in DOMAIN b.comp : b.comp[id] = name}
  IN  IF found = {} THEN 0 ELSE CHOOSE id \in found : \A o \in found : id <= o

\* what node.Delete() and the node.GetAttrs() after it can do: the tool is
\* gone by the time its attributes are read, so the read may still answer
\* with the name or fail
DeleteOutcomes == {"Delete raises", "name read", "read fails"}

\* delete_node (fusion_tools.py:410-427): ret is 1 for True, 0 for False
delete_node(b, node_name, outcome) ==
  LET byName == get_node_by_name(b, node_name)
      node == IF byName # 0 THEN byName
              ELSE IF node_name \in DOMAIN b.created_nodes
                     THEN b.created_nodes[node_name] ELSE 0
  IN  IF node = 0 \/ outcome = "Delete raises"
        THEN Built(b.comp, b.created_nodes, b.made, 0)
      ELSE IF outcome = "read fails"
        THEN Built(Without(b.comp, node), b.created_nodes, b.made, 0)
        ELSE Built(Without(b.comp, node), Without(b.created_nodes, node_name),
                   b.made, 1)

\* clear_composition (fusion_tools.py:429-443): the tools in deleted are
\* gone when a Delete() raises; deleted = all of them when none does
clear_composition(b, deleted) ==
  IF deleted = DOMAIN b.comp
    THEN Built(<<>>, <<>>, b.made, 1)
    ELSE Built([id \in DOMAIN b.comp \ deleted |-> b.comp[id]],
               b.created_nodes, b.made, 0)

\* the builder as the variables hold it
Builder == Built(comp, created_nodes, made, 0)

\* a builder call stores what it left behind and returns
BuilderCall(name, b) ==
  /\ pc = "idle"
  /\ entry' = name
  /\ comp' = b.comp
  /\ created_nodes' = b.created_nodes
  /\ made' = b.made
  /\ result' = [kind |-> "builder", ret |-> b.ret]
  /\ pc' = "returned"
  /\ UNCHANGED <<state, visited, builder, comfyui, classifier, fusion_builder, now,
                 user_input, start_time, task, idx, nodes_created, images_generated,
                 graphCalls, attempted, genCalls, raised>>

BuilderCreateNode ==
  \E node_type \in NodeTypes, name \in NodeNames, outcome \in AddToolOutcomes :
    BuilderCall("create_node", create_node(Builder, node_type, name, outcome))

\* names a caller may ask to delete: those in use and one that never was
DeletableNames ==
  {comp[id] : id \in DOMAIN comp} \cup DOMAIN created_nodes \cup {"Ghost"}

BuilderDeleteNode ==
  \E node_name \in DeletableNames, outcome \in DeleteOutcomes :
    BuilderCall("delete_node", delete_node(Builder, node_name, outcome))

BuilderClearComposition ==
  \E deleted \in SUBSET DOMAIN comp :
    BuilderCall("clear_composition", clear_composition(Builder, deleted))

\* the caller takes the value and is free to call again
BuilderReturn ==
  /\ pc = "returned"
  /\ pc' = "idle"
  /\ entry' = "none"
  /\ result' = None
  /\ UNCHANGED <<state, visited, builder, tools, comfyui, classifier, now, user_input,
                 start_time, task, idx, nodes_created, images_generated, graphCalls,
                 attempted, genCalls, raised>>

\* a builder over an empty composition, FusionNodeBuilder.__init__
InitBuilder ==
  /\ state = "idle"
  /\ builder = TRUE
  /\ comfyui = FALSE
  /\ entry = "none"
  /\ pc = "idle"
  /\ result = None
  /\ AtRest

NextBuilder ==
  \/ BuilderCreateNode
  \/ BuilderDeleteNode
  \/ BuilderClearComposition
  \/ BuilderReturn

SpecBuilder == InitBuilder /\ [][NextBuilder]_vars


\* ------------------------------------------------------------------------
\* VSCodeBridge (vscode_bridge.py): one command in, one response out
\* ------------------------------------------------------------------------

\* an execute_step command carries no more actions than this
MaxActions == 2

\* vscode_bridge.py:39-48  the registered handlers
handlers ==
  {"execute_step", "play_preview", "get_context", "parse_intent",
   "break_down_task", "modify_step", "set_render_range", "clear_composition"}

\* handlers that reach neither the builder nor the composition
\* (vscode_bridge.py:144-175, 217-457)
PlainHandlers ==
  {"play_preview", "parse_intent", "break_down_task", "modify_step",
   "set_render_range"}

\* the values command.get('action') can have: a handler's name, another
\* string, None when the key is missing, or an unhashable JSON value
ActionValues == handlers \cup {"fly", "<absent>", "<list>"}

\* the actions of a step: the node types _create_node knows and one it does
\* not, the two operations on existing nodes, and a type execute_step skips
StepActions ==
  {[type |-> "create_node", target |-> "Background"],
   [type |-> "create_node", target |-> "Glow"],
   [type |-> "connect_nodes", target |-> ""],
   [type |-> "set_parameters", target |-> "Background"],
   [type |-> "render", target |-> ""]}

StepLists ==
  UNION {[1..n -> StepActions] : n \in 0..MaxActions}

\* a command as json.loads hands it to handle_command
Command(kind, action, hasStep, actions) ==
  [kind |-> kind, action |-> action, hasStep |-> hasStep, actions |-> actions]

Commands ==
  {Command("dict", a, FALSE, <<>>) : a \in ActionValues}
    \cup {Command("dict", "execute_step", TRUE, l) : l \in StepLists}
    \cup {Command("list", "<absent>", FALSE, <<>>)}

\* vscode_bridge.py:52-58  the three shapes of a response
Response(success, error, status) ==
  [kind |-> "response", success |-> success, error |-> error, status |-> status]

\* the variables a bridge call leaves alone throughout
bridgeFrame ==
  <<state, builder, comfyui, classifier, now, user_input, start_time,
    images_generated, graphCalls, attempted, genCalls>>

\* python -m ... '<json>': handle_command is entered with the command
BridgeCall ==
  /\ pc = "idle"
  /\ \E command \in Commands : task' = command
  /\ entry' = "handle_command"
  /\ pc' = "lookup"
  /\ idx' = 1
  /\ UNCHANGED <<bridgeFrame, tools, visited, nodes_created, raised, result>>

\* vscode_bridge.py:37-52  the action is read and looked up, both outside
\* the try block
Lookup ==
  /\ entry = "handle_command"
  /\ pc = "lookup"
  /\ IF task.kind # "dict"
       THEN /\ raised' = Exc("AttributeError", "'list' object has no attribute 'get'")
            /\ pc' = "raised"
            /\ UNCHANGED <<visited, result>>
     ELSE IF task.action = "<list>"
       THEN /\ raised' = Exc("TypeError", "unhashable type: 'list'")
            /\ pc' = "raised"
            /\ UNCHANGED <<visited, result>>
     ELSE IF task.action \notin handlers
       THEN /\ result' = Response(FALSE, "Unknown action", "")
            /\ pc' = "returned"
            /\ UNCHANGED <<visited, raised>>
       ELSE /\ visited' = Append(visited, task.action)
            /\ pc' = "handler"
            /\ UNCHANGED <<raised, result>>
  /\ UNCHANGED <<bridgeFrame, tools, entry, task, idx, nodes_created>>

\* vscode_bridge.py:57-58  an exception of the handler becomes the response
Caught(e) ==
  /\ raised' = e
  /\ result' = Response(FALSE, e.text, "")
  /\ pc' = "returned"

\* vscode_bridge.py:55-56  the handler's value becomes the response
Completed(status) ==
  /\ result' = Response(TRUE, "", status)
  /\ pc' = "returned"
  /\ UNCHANGED raised

\* vscode_bridge.py:62-73  execute_step reads the step and makes sure there
\* is a builder; a new builder knows none of the nodes in the composition
ExecuteStepBegin ==
  /\ entry = "handle_command"
  /\ pc = "handler"
  /\ task.action = "execute_step"
  /\ IF ~task.hasStep
       THEN /\ Caught(Exc("KeyError", "'step'"))
            /\ UNCHANGED tools
     ELSE IF fusion_builder
       THEN /\ pc' = "actions"
            /\ UNCHANGED <<tools, raised, result>>
       ELSE \E available \in BOOLEAN :
              IF available
                THEN /\ fusion_builder' = TRUE
                     /\ created_nodes' = <<>>
                     /\ pc' = "actions"
                     /\ UNCHANGED <<comp, made, raised, result>>
                ELSE /\ Caught(Exc("RuntimeError", "No Fusion composition available"))
                     /\ UNCHANGED tools
  /\ UNCHANGED <<bridgeFrame, visited, entry, task, idx, nodes_created>>

\* vscode_bridge.py:99-130  the node type AddTool is asked for, "" when
\* _create_node raises ValueError
_create_node(node_type) ==
  CASE node_type = "Background" -> "Background"
    [] node_type = "Text" -> "Text+"
    [] node_type = "Transform" -> "Transform"
    [] node_type = "Merge" -> "Merge"
    [] OTHER -> ""

\* vscode_bridge.py:75-91  one action of the step
ExecuteStepAction ==
  /\ entry = "handle_command"
  /\ pc = "actions"
  /\ idx <= Len(task.actions)
  /\ LET action == task.actions[idx]
     IN  IF action.type = "create_node"
           THEN IF _create_node(action.target) = ""
                  THEN /\ Caught(Exc("ValueError", "Unsupported node type"))
                       /\ UNCHANGED <<tools, idx, nodes_created>>
                  ELSE \E outcome \in AddToolOutcomes :
                         LET b == create_node(Builder, _create_node(action.target),
                                              action.target, outcome)
                         IN  /\ comp' = b.comp
                             /\ created_nodes' = b.created_nodes
                             /\ made' = b.made
                             /\ nodes_created' =
                                  IF b.made > made THEN Append(nodes_created, b.made)
                                                   ELSE nodes_created
                             /\ idx' = idx + 1
                             /\ UNCHANGED <<fusion_builder, pc, raised, result>>
           ELSE /\ idx' = idx + 1
                /\ UNCHANGED <<tools, pc, raised, result, nodes_created>>
  /\ UNCHANGED <<bridgeFrame, visited, entry, task>>

\* vscode_bridge.py:93-97
ExecuteStepEnd ==
  /\ entry = "handle_command"
  /\ pc = "actions"
  /\ idx > Len(task.actions)
  /\ Completed("completed")
  /\ UNCHANGED <<bridgeFrame, tools, visited, entry, task, idx, nodes_created>>

\* vscode_bridge.py:459-469  the handler answers 'cleared' whatever the
\* builder's clear_composition returned
ClearCompositionHandler ==
  /\ entry = "handle_command"
  /\ pc = "handler"
  /\ task.action = "clear_composition"
  /\ \E available \in BOOLEAN, deleted \in SUBSET DOMAIN comp :
       IF ~fusion_builder /\ ~available
         THEN /\ Caught(Exc("RuntimeError", "No Fusion composition available"))
              /\ UNCHANGED tools
         ELSE LET fresh == IF fusion_builder THEN Builder
                           ELSE Built(comp, <<>>, made, 0)
                  b == clear_composition(fresh, deleted)
              IN  /\ fusion_builder' = TRUE
                  /\ comp' = b.comp
                  /\ created_nodes' = b.created_nodes
                  /\ made' = b.made
                  /\ Completed("cleared")
  /\ UNCHANGED <<bridgeFrame, visited, entry, task, idx, nodes_created>>

\* vscode_bridge.py:177-215  get_context may build the builder; it reads the
\* composition and changes nothing in it
GetContextHandler ==
  /\ entry = "handle_command"
  /\ pc = "handler"
  /\ task.action = "get_context"
  /\ \E outcome \in {"raises", "no clip", "clip"} :
       IF outcome = "raises"
         THEN /\ Caught(Exc("Exception", "get_status failed"))
              /\ UNCHANGED tools
       ELSE IF outcome = "clip" /\ ~fusion_builder
         THEN /\ fusion_builder' = TRUE
              /\ created_nodes' = <<>>
              /\ Completed("context")
              /\ UNCHANGED <<comp, made>>
         ELSE /\ Completed("context")
              /\ UNCHANGED tools
  /\ UNCHANGED <<bridgeFrame, visited, entry, task, idx, nodes_created>>

\* vscode_bridge.py:144-175, 217-457  the handlers that work on the timeline
\* or on the command alone: they return their value or raise
PlainHandler ==
  /\ entry = "handle_command"
  /\ pc = "handler"
  /\ task.action \in PlainHandlers
  /\ \E completes \in BOOLEAN :
       IF completes THEN Completed(task.action)
                    ELSE Caught(Exc("RuntimeError", "No timeline available"))
  /\ UNCHANGED <<bridgeFrame, tools, visited, entry, task, idx, nodes_created>>

\* the caller has the response, or the exception
BridgeReturn ==
  /\ entry = "handle_command"
  /\ pc \in {"returned", "raised"}
  /\ pc' = "idle"
  /\ entry' = "none"
  /\ task' = None
  /\ idx' = 1
  /\ nodes_created' = <<>>
  /\ visited' = <<>>
  /\ raised' = NoExc
  /\ result' = None
  /\ UNCHANGED <<bridgeFrame, tools>>

\* vscode_bridge.py:472-485  main() builds a new bridge for the next
\* command: it has no builder yet
NewBridge ==
  /\ pc = "idle"
  /\ fusion_builder
  /\ fusion_builder' = FALSE
  /\ created_nodes' = <<>>
  /\ UNCHANGED <<bridgeFrame, comp, made, visited, entry, pc, task, idx,
                 nodes_created, raised, result>>

\* vscode_bridge.py:28-33  VSCodeBridge() over a composition with no tools
InitBridge ==
  /\ state = "idle"
  /\ builder = FALSE
  /\ comfyui = FALSE
  /\ entry = "none"
  /\ pc = "idle"
  /\ result = None
  /\ AtRest

NextBridge ==
  \/ BridgeCall
  \/ Lookup
  \/ ExecuteStepBegin
  \/ ExecuteStepAction
  \/ ExecuteStepEnd
  \/ ClearCompositionHandler
  \/ GetContextHandler
  \/ PlainHandler
  \/ BridgeReturn
  \/ NewBridge

SpecBridge == InitBridge /\ [][NextBridge]_vars

\* ------------------------------------------------------------------------
\* FunctionExecutor (ai_tools.py): one function call in, one dictionary out
\* ------------------------------------------------------------------------

\* ai_tools.py:347-376  the functions answered by the controller
ControllerFunctions ==
  {"get_project_status", "create_timeline", "add_timeline_marker",
   "import_media_files", "list_media_pool_items"}

\* ai_tools.py:379-491  the functions answered by the Fusion builder
FusionFunctions ==
  {"create_fusion_node", "connect_fusion_nodes", "set_node_parameters",
   "create_text_node", "create_background_node", "create_lower_third",
   "list_fusion_nodes", "delete_fusion_node", "clear_fusion_composition"}

\* the same with one branch lacking its test of the builder
NeedsBuilderButList == FusionFunctions \ {"list_fusion_nodes"}

\* ai_tools.py:380, 395, 410, 423, 439, 452, 467, 474, 484  the branches that
\* start with `if not self.fusion_builder`
NeedsBuilder == FusionFunctions

\* the functions whose branch reads a key of arguments with arguments[...]
RequiresArguments ==
  {"create_timeline", "add_timeline_marker", "import_media_files",
   "create_fusion_node", "connect_fusion_nodes", "set_node_parameters",
   "create_text_node", "create_lower_third", "delete_fusion_node"}

\* the names execute is called with: the fourteen of the schema and one
\* that is none of them
FunctionNames == ControllerFunctions \cup FusionFunctions \cup {"fly"}

\* the dictionary execute returns
Answer(success, error) == [kind |-> "answer", success |-> success, error |-> error]

\* an operation of the controller or of the builder, in the order made
Op(name) == [op |-> name, at |-> CallNo]

\* ai_tools.py:350-375  the controller method a function reaches
ControllerOp(function_name) ==
  CASE function_name = "get_project_status" -> "controller.get_status"
    [] function_name = "create_timeline" -> "controller.create_timeline"
    [] function_name = "add_timeline_marker" -> "controller.add_marker"
    [] function_name = "import_media_files" -> "controller.import_media"
    [] function_name = "list_media_pool_items" -> "controller.get_media_pool_items"

\* ai_tools.py:334-503  execute(function_name, arguments) has returned:
\* its dictionary, the exception it caught, the operations it made and the
\* builder it leaves
Executed(function_name, answer, e, ops, b) ==
  /\ pc = "idle"
  /\ entry' = "execute"
  /\ task' = [kind |-> "call", function_name |-> function_name]
  /\ result' = answer
  /\ raised' = e
  /\ graphCalls' = ops
  /\ comp' = b.comp
  /\ created_nodes' = b.created_nodes
  /\ made' = b.made
  /\ pc' = "returned"
  /\ UNCHANGED <<state, visited, builder, comfyui, classifier, fusion_builder, now,
                 user_input, start_time, idx, nodes_created, images_generated,
                 attempted, genCalls>>

\* ai_tools.py:499-503  an exception met before any operation
Failed(function_name, e) ==
  Executed(function_name, Answer(FALSE, e.text), e, graphCalls, Builder)

\* a required key is missing from arguments
MissingArgument == Exc("KeyError", "missing key")

\* self.fusion_builder is None and a method is looked up on it
NoBuilderMethod == Exc("AttributeError", "'NoneType' object has no attribute")

\* ai_tools.py:380-381  the answer of a Fusion branch without a builder
NotAvailable == Answer(FALSE, "Fusion composition not available")

\* ai_tools.py:347-376  the project and timeline functions
ExecuteController ==
  \E function_name \in ControllerFunctions, complete \in BOOLEAN,
     outcome \in {"True", "False", "raises"} :
    IF function_name \in RequiresArguments /\ ~complete
      THEN Failed(function_name, MissingArgument)
    ELSE IF outcome = "raises"
      THEN Executed(function_name, Answer(FALSE, "Resolve error"),
                    Exc("Exception", "Resolve error"),
                    Append(graphCalls, Op(ControllerOp(function_name))), Builder)
      ELSE Executed(function_name,
                    Answer(outcome = "True" \/ function_name \notin RequiresArguments, ""),
                    NoExc, Append(graphCalls, Op(ControllerOp(function_name))), Builder)

\* ai_tools.py:380-381 and the eight tests like it
ExecuteFusionAbsent ==
  /\ ~fusion_builder
  /\ \E function_name \in NeedsBuilder :
       Executed(function_name, NotAvailable, NoExc, graphCalls, Builder)

\* a Fusion branch goes past its test
PastTest(function_name) == fusion_builder \/ function_name \notin NeedsBuilder

\* ai_tools.py:379-392, 422-449  one node is created; a three-valued colour
\* makes create_background_node fail on color[3] after the node is there
ExecuteCreate ==
  \E function_name \in {"create_fusion_node", "create_text_node", "create_background_node"},
     complete \in BOOLEAN, node_type \in NodeTypes, name \in NodeNames,
     rgb \in BOOLEAN, outcome \in AddToolOutcomes :
    /\ PastTest(function_name)
    /\ LET type == CASE function_name = "create_fusion_node" -> node_type
                     [] function_name = "create_text_node" -> "Text+"
                     [] function_name = "create_background_node" -> "Background"
           b == create_node(Builder, type, name, outcome)
           ops == Append(graphCalls, Op("builder.create_node"))
       IN  IF ~fusion_builder
             THEN Failed(function_name, NoBuilderMethod)
           ELSE IF function_name \in RequiresArguments /\ ~complete
             THEN Failed(function_name, MissingArgument)
           ELSE IF function_name = "create_background_node" /\ rgb /\ b.ret # 0
             THEN Executed(function_name, Answer(FALSE, "tuple index out of range"),
                           Exc("IndexError", "tuple index out of range"), ops, b)
             ELSE Executed(function_name, Answer(b.ret # 0, ""), NoExc, ops, b)

\* fusion_tools.py:318-392  the nodes of a lower third, in the order made
LowerThirdNodes ==
  <<[type |-> "Background", name |-> "LowerThird_BG"],
    [type |-> "Transform", name |-> "LowerThird_Transform"],
    [type |-> "Text+", name |-> "LowerThird_Title"],
    [type |-> "Merge", name |-> "LowerThird_TitleMerge"]>>

RECURSIVE build_lower_third(_, _, _)
build_lower_third(b, i, outcomes) ==
  IF i > Len(LowerThirdNodes) THEN b
  ELSE LET outcome == IF outcomes[i] \in AddToolOutcomesAt(b.made)
                        THEN outcomes[i] ELSE "AddTool None"
           next == create_node(b, LowerThirdNodes[i].type, LowerThirdNodes[i].name, outcome)
       IN  build_lower_third(next, i + 1, outcomes)

\* ai_tools.py:451-464  the dictionary of nodes has its four keys whether or
\* not the nodes were made
ExecuteLowerThird ==
  \E complete \in BOOLEAN,
     outcomes \in [1..Len(LowerThirdNodes) -> {"ok", "AddTool None"}] :
    /\ PastTest("create_lower_third")
    /\ IF ~fusion_builder
         THEN Failed("create_lower_third", NoBuilderMethod)
       ELSE IF ~complete
         THEN Failed("create_lower_third", MissingArgument)
         ELSE Executed("create_lower_third", Answer(TRUE, ""), NoExc,
                       Append(graphCalls, Op("builder.build_lower_third")),
                       build_lower_third(Builder, 1, outcomes))

\* ai_tools.py:394-420, 466-471  the functions that work on the nodes there
\* are: they add and remove none
ExecuteOnNodes ==
  \E function_name \in {"connect_fusion_nodes", "set_node_parameters", "list_fusion_nodes"},
     complete \in BOOLEAN, success \in BOOLEAN :
    /\ PastTest(function_name)
    /\ IF ~fusion_builder
         THEN Failed(function_name, NoBuilderMethod)
       ELSE IF function_name \in RequiresArguments /\ ~complete
         THEN Failed(function_name, MissingArgument)
         ELSE Executed(function_name,
                       Answer(success \/ function_name = "list_fusion_nodes", ""), NoExc,
                       Append(graphCalls, Op("builder." \o function_name)), Builder)

\* ai_tools.py:473-481
ExecuteDelete ==
  \E complete \in BOOLEAN, node_name \in DeletableNames, outcome \in DeleteOutcomes :
    /\ PastTest("delete_fusion_node")
    /\ LET b == delete_node(Builder, node_name, outcome)
       IN  IF ~fusion_builder
             THEN Failed("delete_fusion_node", NoBuilderMethod)
           ELSE IF ~complete
             THEN Failed("delete_fusion_node", MissingArgument)
             ELSE Executed("delete_fusion_node", Answer(b.ret = 1, ""), NoExc,
                           Append(graphCalls, Op("builder.delete_node")), b)

\* ai_tools.py:483-491
ExecuteClear ==
  \E deleted \in SUBSET DOMAIN comp :
    /\ PastTest("clear_fusion_composition")
    /\ LET b == clear_composition(Builder, deleted)
       IN  IF ~fusion_builder
             THEN Failed("clear_fusion_composition", NoBuilderMethod)
             ELSE Executed("clear_fusion_composition", Answer(b.ret = 1, ""), NoExc,
                           Append(graphCalls, Op("builder.clear_composition")), b)

\* ai_tools.py:493-497
ExecuteUnknown ==
  /\ pc = "idle"
  /\ \E function_name \in FunctionNames \ (ControllerFunctions \cup FusionFunctions) :
       Executed(function_name, Answer(FALSE, "Unknown function"), NoExc, graphCalls,
                Builder)

\* the caller has the dictionary
ExecuteReturn ==
  /\ entry = "execute"
  /\ pc = "returned"
  /\ pc' = "idle"
  /\ entry' = "none"
  /\ task' = None
  /\ result' = None
  /\ raised' = NoExc
  /\ graphCalls' = <<>>
  /\ UNCHANGED <<state, visited, builder, tools, comfyui, classifier, now, user_input,
                 start_time, idx, nodes_created, images_generated, attempted, genCalls>>

\* ai_tools.py:323-332  FunctionExecutor(controller, fusion_builder): with a
\* builder over an empty composition, or with none
InitExecutor ==
  /\ state = "idle"
  /\ builder = FALSE
  /\ comfyui = FALSE
  /\ entry = "none"
  /\ pc = "idle"
  /\ result = None
  /\ now = 0
  /\ user_input = {}
  /\ start_time = 0
  /\ task = None
  /\ idx = 1
  /\ nodes_created = <<>>
  /\ images_generated = <<>>
  /\ graphCalls = <<>>
  /\ attempted = <<>>
  /\ genCalls = <<>>
  /\ raised = NoExc
  /\ visited = <<>>
  /\ advice = None
  /\ second = None
  /\ comp = <<>>
  /\ created_nodes = <<>>
  /\ fusion_builder \in BOOLEAN
  /\ made = 0

NextExecutor ==
  \/ ExecuteController
  \/ ExecuteFusionAbsent
  \/ ExecuteCreate
  \/ ExecuteLowerThird
  \/ ExecuteOnNodes
  \/ ExecuteDelete
  \/ ExecuteClear
  \/ ExecuteUnknown
  \/ ExecuteReturn

SpecExecutor == InitExecutor /\ [][NextExecutor]_vars

\* every name the builder keeps refers to a tool still in the composition
TrackedNodesExist ==
  \A name \in DOMAIN created_nodes : created_nodes[name] \in DOMAIN comp

\* a clear_composition that returned True left nothing behind
ClearedMeansEmpty ==
  (entry = "clear_composition" /\ pc = "returned" /\ result.ret = 1)
    => (comp = <<>> /\ created_nodes = <<>>)

\* C38: after any sequence of create_node, delete_node and
\* clear_composition calls, failing ones included, every name in
\* created_nodes refers to a node that still exists in the composition,
\* and a clear_composition that returned True left both empty.
C38_TrackedNodesExist ==
  /\ TrackedNodesExist
  /\ ClearedMeansEmpty

\* a delete_node that returned False after removing the tool it still keeps
DeletedNodeStillTracked ==
  /\ entry = "delete_node"
  /\ pc = "returned"
  /\ result.ret = 0
  /\ ~TrackedNodesExist

\* a clear_composition that failed part-way keeps the names of the tools
\* it removed
PartialClearStillTracked ==
  /\ entry = "clear_composition"
  /\ pc = "returned"
  /\ result.ret = 0
  /\ ~TrackedNodesExist

\* a clear_composition returned True where there were nodes to clear
ClearedAll ==
  /\ entry = "clear_composition"
  /\ pc = "returned"
  /\ result.ret = 1
  /\ made > 0


\* handle_command has come back with a response
Responded == Returned("handle_command") /\ result.kind = "response"

\* an action that names no handler is answered 'Unknown action' and no
\* handler was invoked
UnknownActionRejected ==
  (Responded /\ task.action \notin handlers)
    => (result = Response(FALSE, "Unknown action", "") /\ visited = <<>>)

\* the lookup of an action that names no handler leaves the composition and
\* the builder as they were
UnknownActionTouchesNothing ==
  [][(pc = "lookup" /\ entry = "handle_command" /\ task.kind = "dict"
        /\ task.action \notin handlers /\ task.action # "<list>")
       => (tools' = tools /\ pc' = "returned")]_vars

\* an exception of a handler comes back as success = False with its text
HandlerExceptionReturned ==
  (Responded /\ raised # NoExc)
    => result = Response(FALSE, raised.text, "")

\* success = True is returned only when the handler completed
SuccessOnlyWhenCompleted ==
  (Responded /\ result.success)
    => (visited = <<task.action>> /\ task.action \in handlers /\ raised = NoExc)

\* C36: handle_command never raises; an action outside the eight handlers
\* is answered 'Unknown action' without invoking a handler, a handler's
\* exception is returned as success = False with its text, and success =
\* True is returned only when the handler completed.
C36_HandleCommandNeverRaises ==
  /\ entry = "handle_command" => pc # "raised"
  /\ UnknownActionRejected
  /\ HandlerExceptionReturned
  /\ SuccessOnlyWhenCompleted

\* handle_command raised on a command whose action is a JSON list
UnhashableActionRaises ==
  /\ entry = "handle_command"
  /\ pc = "raised"
  /\ task.kind = "dict"
  /\ raised.class = "TypeError"
  /\ visited = <<>>

\* a command naming no handler was answered
UnknownActionAnswered ==
  /\ Responded
  /\ task.action = "fly"
  /\ made > 0

\* a handler's exception was answered
HandlerExceptionAnswered ==
  /\ Responded
  /\ raised.class = "ValueError"


\* the tools the actions of the current step added that are still there
StepNodesRemaining ==
  {nodes_created[i] : i \in 1..Len(nodes_created)} \cap DOMAIN comp

\* the actions of a step are applied in list order: the i-th is at work
\* only after those before it
ActionsInListOrder ==
  [][(entry = "handle_command" /\ pc = "actions" /\ idx' # idx /\ pc' = "actions")
       => idx' = idx + 1]_vars

\* C37: execute_step is all-or-nothing: when handle_command answers
\* success = False to an execute_step command, no node created by an
\* earlier action of that step remains in the composition.
C37_ExecuteStepAllOrNothing ==
  (Responded /\ task.action = "execute_step" /\ ~result.success)
    => StepNodesRemaining = {}

\* a step failed on an unsupported node type after an earlier action had
\* created a node, and the node is still in the composition
FailedStepLeavesNode ==
  /\ Responded
  /\ task.action = "execute_step"
  /\ result = Response(FALSE, "Unsupported node type", "")
  /\ idx = 2
  /\ StepNodesRemaining # {}


\* execute has come back with its dictionary
Answered == Returned("execute") /\ result.kind = "answer"

\* a Fusion function was called on an executor without a builder
FusionWithoutBuilder ==
  /\ Answered
  /\ task.function_name \in FusionFunctions
  /\ ~fusion_builder

\* C39: execute never raises and always returns a dictionary with a success
\* flag: an unknown name gives success = False with 'Unknown function',
\* a Fusion function without a builder gives success = False with 'Fusion
\* composition not available' and makes no controller or composition
\* operation, and an exception of the controller or of the builder is
\* returned as success = False with its text.
C39_ExecuteAlwaysAnswers ==
  /\ entry = "execute" => (Answered /\ result.success \in BOOLEAN)
  /\ (Answered /\ task.function_name \notin ControllerFunctions \cup FusionFunctions)
       => result = Answer(FALSE, "Unknown function")
  /\ FusionWithoutBuilder => (result = NotAvailable /\ graphCalls = <<>>)
  /\ (Answered /\ raised # NoExc) => result = Answer(FALSE, raised.text)

\* a call without a builder changes neither the composition nor the record
NoBuilderNoChange ==
  [][(~fusion_builder /\ entry' = "execute") => tools' = tools]_vars

\* every Fusion function was refused on an executor without a builder
C39_Witness ==
  /\ FusionWithoutBuilder
  /\ task.function_name = "list_fusion_nodes"
  /\ result = NotAvailable

\* an exception of the builder was answered, the node it had made in place
BuilderExceptionAnswered ==
  /\ Answered
  /\ raised.class = "IndexError"
  /\ result = Answer(FALSE, "tuple index out of range")
  /\ made > 0

\* an exception of the controller was answered
ControllerExceptionAnswered ==
  /\ Answered
  /\ task.function_name \in ControllerFunctions
  /\ raised.class = "Exception"
  /\ Len(graphCalls) = 1

\* an unknown name was answered
UnknownFunctionAnswered ==
  /\ Answered
  /\ task.function_name = "fly"
  /\ fusion_builder

====
